---------------------------- MODULE Spec2Model ----------------------------
(***************************************************************************)
(* A model of the pit controller of pit-ninja (PitPID, pit-pid.js) and of  *)
(* the helpers of utils.js it uses.                                        *)
(*                                                                         *)
(* Numbers.  The program computes in IEEE doubles.  The model computes in  *)
(* fixed point: a percentage or a temperature x is held as the integer     *)
(* x * S (S = 100), a PID gain g as g * G (G = 10000), a time in whole     *)
(* milliseconds, lid_open_duration in whole seconds.  A quotient is        *)
(* rounded to the nearest unit (RoundDiv).  null and NaN are two integers  *)
(* outside every range the model computes with.  TLC's integers are 32     *)
(* bits wide: the scales keep every product below 2^31.                    *)
(***************************************************************************)
EXTENDS Integers, Sequences, FiniteSets, TLC

-----------------------------------------------------------------------------
(* Fixed point and the two non-numbers                                     *)

\* two decimal digits for a percentage or a degree, four for a gain
S == 10 * 10
G == S * S
NULL == 0 - 999999999
NaN == 0 - 999999998

IsNum(x) == x # NULL /\ x # NaN

\* JavaScript's ToNumber on the values the program holds: null is 0.
Num(x) == IF x = NULL THEN 0 ELSE x

Min(a, b) == IF a < b THEN a ELSE b
Max(a, b) == IF a > b THEN a ELSE b
Abs(a) == IF a < 0 THEN 0 - a ELSE a

\* a / b rounded to the nearest integer, b # 0.
RoundDiv(a, b) ==
    IF b > 0 THEN (2 * a + b) \div (2 * b)
             ELSE (2 * (0 - a) + (0 - b)) \div (2 * (0 - b))

\* gain * x for a gain held times G: g * x / G, the product taken in two parts
MulGain(g, x) == (g \div G) * x + RoundDiv((g % G) * x, G)

-----------------------------------------------------------------------------
(* pit-pid.js constants                                                    *)

STARTUP == 0
RECOVERY == 1
NORMAL == 2
AUTO_LAST == 2
MANUAL == 3
OFF == 4
Modes == {STARTUP, RECOVERY, NORMAL, MANUAL, OFF}
PIDMODE_STR == <<"STARTUP", "RECOVERY", "NORMAL", "MANUAL", "OFF">>

\* PID_PONMEER_LAMBDA = 0.4, as tenths
PID_PONMEER_LAMBDA_10 == 4
LIDOPEN_MIN_AUTORESUME == 30
TEMP_MEASURE_PERIOD == 1000
TEMP_LONG_PWM_CNT == 10
TEMP_OUTADJUST_CNT == 3
SERVO_MIN_THRESH == 5
SERVO_MAX_HOLDOFF == 10
DO_WORK_PERIOD == TEMP_MEASURE_PERIOD \div (TEMP_OUTADJUST_CNT + 1)
\* TEMPPROBE_AVG_SMOOTH = 2/(1+60), PID_OUTPUT_AVG_SMOOTH = 2/(1+240):
\* the denominators; the numerator is SMOOTH_NUM.
SMOOTH_NUM == 2
TEMPPROBE_AVG_DEN == 61
PID_OUTPUT_AVG_DEN == 241
\* TEMP_DEV_THRESHOLD = 0.5 = 1 / TEMP_DEV_THRESHOLD_INV
TEMP_DEV_THRESHOLD_INV == 2
\* _servoActiveCeil, set by the constructor and never assigned again
SERVO_ACTIVE_CEIL == 100

-----------------------------------------------------------------------------
(* utils.js                                                                *)

\* Math.min(Math.max(value, minValue), maxValue)
\* constrain without the clamp, the variant the clamping claims are told from
constrainNone(value, minValue, maxValue) == value

constrain(value, minValue, maxValue) == Min(Max(value, minValue), maxValue)

\* mapRange: the quotient by (max - min) is 0/0 = NaN when max = min.
mapRange(value, min, max, newMin, newMax) ==
    LET clampedValue == constrain(value, min, max)
    IN  IF max = min
        THEN NaN
        ELSE RoundDiv((clampedValue - min) * (newMax - newMin), max - min) + newMin

\* mapPct(o, a, b) = ((b - a) * o) / 100 + a, o clamped to 0..100
mapPct(o, a, b) ==
    LET oc == constrain(o, 0, 100 * S)
    IN  RoundDiv((b - a) * oc, 100 * S) + a

\* calcExpMovingAverage(smooth, currAverage, newValue), smooth = SMOOTH_NUM / den
calcExpMovingAverage(den, currAverage, newValue) ==
    IF currAverage = NULL \/ currAverage = NaN
    THEN newValue
    ELSE currAverage + RoundDiv(SMOOTH_NUM * (newValue - currAverage), den)

RECURSIVE SumOver(_, _)
SumOver(f, D) ==
    IF D = {} THEN 0
    ELSE LET a == CHOOSE x \in D : TRUE
         IN  f[a] + SumOver(f, D \ {a})

\* The plain mean of the values of a map address -> ambient, no value trimmed
calcMean(f) ==
    LET D == DOMAIN f
    IN  IF D = {} THEN NaN ELSE RoundDiv(SumOver(f, D), Cardinality(D))

\* calcLowerTrimmedMean over the values of a map address -> ambient.  (The
\* arr.sort() it begins with reorders a copy of the values; sum and filter do
\* not depend on the order.)  With n values of sum s, v >= mean - dev / 2 is
\* decided without the square root: n*v >= s, or 4 * n * (s - n*v)^2 <= the
\* sum of (n*x - s)^2.  The squares are taken of the deviations n*x - s
\* rounded to whole degrees.
calcLowerTrimmedMean(f) ==
    LET D  == DOMAIN f
        n  == Cardinality(D)
        s  == SumOver(f, D)
        dv == [a \in D |-> RoundDiv(n * f[a] - s, S)]
        sq == [a \in D |-> dv[a] * dv[a]]
        q  == SumOver(sq, D)
        K  == TEMP_DEV_THRESHOLD_INV * TEMP_DEV_THRESHOLD_INV
        kept == {a \in D : \/ n * f[a] >= s
                           \/ K * n * sq[a] <= q}
    IN  IF n = 0 \/ kept = {} THEN NaN
        ELSE RoundDiv(SumOver(f, kept), Cardinality(kept))

-----------------------------------------------------------------------------
(* State                                                                   *)

VARIABLES
    \* PitPID fields (constructor, pit-pid.js)
    Pid,                \* gains {P, I, D}, each times G
    pidCurrent,         \* the three terms {P, I, D}; I is the integrator
    pidMode,
    pidOutput,
    pidOutputAvg,
    lastWorkMillis,
    periodCounter,
    longPwmTmr,
    longPwmRemaining,
    units,              \* "null", "F" or "C"
    setPoint,
    currentTemp,
    temperatureAvg,
    fanMaxSpeed,
    fanMaxStartupSpeed,
    fanActiveFloor,
    fanMinSpeed,
    servoMinPos,
    servoMaxPos,
    fanPct,
    lastBlowerOutput,
    servoPct,
    servoHoldoff,
    lidOpenOffset,
    lidOpenDuration,    \* seconds
    lidOpenTimeout,     \* milliseconds
    connectedProbes,    \* address -> ambient (the timestamp is stored and never read)
    \* the environment
    now,                \* millis()
    pendingTimers,      \* doWork invocations scheduled by setTimeout
    crashed,            \* an exception left doWork: the process is gone
    \* what the listeners saw, and bookkeeping of the last operation
    events,             \* events emitted by the last operation, in order
    lastOp,             \* the operation that produced this state
    heavy,              \* the last doWork invocation passed the elapsed test
    pidRan,             \* ... and ran _calcPidOutput to its end
    elapsed,            \* ... and the elapsed time it computed
    prevMode,           \* pidMode before the last operation
    prevI,              \* the integrator before the last operation
    unitTick,           \* ... and was the first PID tick after a unit change
    unitChanged,        \* a reading changed the unit and no PID tick followed yet
    lastCtl,            \* the last of the set_point / mode / pid_output assignments
    ctlArg,             \* ... and its argument
    prevStatusMillis,   \* time of the status event before the last one
    lastStatusMillis,   \* time of the last status event
    before,             \* fields as the last doWork invocation found them
    calcI,              \* the integrator as _calcPidOutput left it in that invocation
    fanCmd,             \* the value of the last fan event emitted
    sinceServo,         \* heavy ticks committed since the last servo event
    calls,              \* API calls made
    ticks,              \* doWork invocations made after the constructor's
    \* MeaterDaemon fields (constructor, meater-daemon.js)
    active,
    errCount,
    restartCount,
    blacklist,          \* the array _blacklist, as a sequence of addresses
    meaters,            \* _meaters: address -> the probe object tracked for it
    \* the probe objects alive, and the timers and awaits of the daemon
    probeObjs,             \* MeaterProbe objects connecting or connected
    created,            \* address -> number of probe objects made for it
    updateTimers,       \* pending setTimeout(() => this._update(), UPDATE_MS)
    awaiting,           \* _update passes awaiting this._adapter.devices()
    restartTimers,      \* pending setTimeout(() => this.restart(), UPDATE_MS)
    startTimers,        \* pending setTimeout(() => this.start(), UPDATE_MS)
    enumerated,         \* the devices the last _update pass was given
    \* PitAirflow (pit-airflow.js) and the shutdown of index.js
    pit,                \* the PitAirflow object: _initialized, _fanRetries,
                        \* _fanSpeed, _damperRetries, _damperPosition
    driverTimers,       \* pending timers of sendPWMCommandFreq, one per PCA9685
    retryTimers,        \* pending retries of commands, in the order they were set
    lastCmd,            \* the last setFanSpeed / setDamperPosition invocation
    shutdown            \* what the SIGINT handler has done so far, in order

cfgVars == <<fanMaxSpeed, fanMaxStartupSpeed, fanActiveFloor, fanMinSpeed,
             servoMinPos, servoMaxPos, lidOpenOffset, lidOpenDuration>>
pidVars == <<Pid, pidCurrent, pidMode, pidOutput, pidOutputAvg, setPoint,
             lidOpenTimeout>>
tempVars == <<units, currentTemp, temperatureAvg, connectedProbes>>
outVars == <<longPwmTmr, longPwmRemaining, fanPct, lastBlowerOutput, servoPct,
             servoHoldoff>>
clockVars == <<lastWorkMillis, periodCounter, now, pendingTimers, crashed>>
tickObs == <<heavy, pidRan, elapsed, unitTick, prevStatusMillis,
            lastStatusMillis, before, calcI, fanCmd, sinceServo>>
opObs == <<events, lastOp, prevMode, prevI>>
daemonVars == <<active, errCount, restartCount, blacklist, meaters, probeObjs,
               created, updateTimers, awaiting, restartTimers, startTimers,
               enumerated>>
airflowVars == <<pit, driverTimers, retryTimers, lastCmd, shutdown>>
vars == <<cfgVars, pidVars, tempVars, outVars, clockVars, tickObs, opObs,
          unitChanged, lastCtl, ctlArg, calls, ticks, daemonVars, airflowVars>>

-----------------------------------------------------------------------------
(* Bounds and inputs                                                       *)

\* API calls in one behaviour, and doWork invocations after the constructor's
MaxCalls == 3
MaxTicks == 3

\* millis() when the constructor runs (a wall-clock time, far from 0)
StartMillis == 1000 * TEMP_MEASURE_PERIOD

\* setTimeout(doWork, DO_WORK_PERIOD) fires on time, or late by three periods
Delays == {DO_WORK_PERIOD, 4 * DO_WORK_PERIOD}

Units == {"F", "C"}


-----------------------------------------------------------------------------
(* MeaterDaemon: addresses and the constructor                             *)

APPTION_LABS == "B8:1F:5E"

\* Device addresses, as manufacturer OUI and the rest: two Meater probes and
\* a device of another manufacturer
MACs == {[oui |-> APPTION_LABS, nic |-> 1], [oui |-> APPTION_LABS, nic |-> 2],
         [oui |-> "AA:BB:CC", nic |-> 1]}

\* new MeaterDaemon()
DaemonConstructed ==
    /\ active = FALSE
    /\ errCount = 0
    /\ restartCount = 0 - 1
    /\ blacklist = << >>
    /\ meaters = << >>
    /\ probeObjs = {}
    /\ created = [id \in MACs |-> 0]
    /\ updateTimers = 0
    /\ awaiting = 0
    /\ restartTimers = 0
    /\ startTimers = 0
    /\ enumerated = {}

-----------------------------------------------------------------------------
(* The constructor                                                         *)

\* The fields the constructor assigns, and then the doWork() it ends with:
\* at millis() = StartMillis that invocation is a heavy tick (elapsed =
\* StartMillis - 0), finds no temperature, leaves the lid branch 1 (240 s -
\* StartMillis / 1000 < 30 s) for branch 2, and commits a zero output.  Its
\* events reach nobody: no listener can be registered before the constructor
\* returns.
Constructed ==
    /\ Pid = [P |-> 25000, I |-> 35, D |-> 60000]
    /\ pidCurrent = [P |-> 0, I |-> 0, D |-> 0]
    /\ pidMode = STARTUP
    /\ pidOutput = 0
    /\ pidOutputAvg = 0
    /\ lastWorkMillis = StartMillis
    /\ periodCounter = 1
    /\ longPwmTmr = 1
    /\ longPwmRemaining = 0
    /\ units = "null"
    /\ setPoint = NULL
    /\ currentTemp = NULL
    /\ temperatureAvg = NULL
    /\ fanMaxSpeed = 80 * S
    /\ fanMaxStartupSpeed = 100 * S
    /\ fanActiveFloor = 50 * S
    /\ fanMinSpeed = 50 * S
    /\ servoMinPos = 0
    /\ servoMaxPos = 100 * S
    /\ fanPct = 0
    /\ lastBlowerOutput = 0
    /\ servoPct = 0
    /\ servoHoldoff = 1
    /\ lidOpenOffset = 5 * S
    /\ lidOpenDuration = 240
    /\ lidOpenTimeout = StartMillis - TEMP_MEASURE_PERIOD
    /\ connectedProbes = << >>
    /\ now = StartMillis
    /\ pendingTimers = 1
    /\ crashed = FALSE
    /\ events = << >>
    /\ lastOp = "constructor"
    /\ heavy = TRUE
    /\ pidRan = FALSE
    /\ elapsed = StartMillis
    /\ prevMode = STARTUP
    /\ prevI = 0
    /\ unitTick = FALSE
    /\ unitChanged = FALSE
    /\ lastCtl = "none"
    /\ ctlArg = 0
    /\ prevStatusMillis = NULL
    /\ lastStatusMillis = NULL
    /\ before = [lidOpenTimeout |-> 0, fanPct |-> 0, lastBlowerOutput |-> 0,
                 servoPct |-> 0, servoHoldoff |-> 0, longPwmTmr |-> 0,
                 longPwmRemaining |-> 0, pidOutput |-> 0,
                 sinceServo |-> 0]
    /\ calcI = 0
    /\ fanCmd = 0
    /\ sinceServo = 1
    /\ calls = 0
    /\ ticks = 0

\* new PitAirflow(): nothing commanded yet, and the PCA9685 it makes is
\* initialized by a timer of its own
AirflowConstructed ==
    /\ pit = [initialized |-> FALSE, fanRetries |-> 0, fanSpeed |-> NULL,
              damperRetries |-> 0, damperPosition |-> NULL]
    /\ driverTimers = 1
    /\ retryTimers = << >>
    /\ lastCmd = [cmd |-> "none", value |-> NULL, tries |-> 0,
                  outcome |-> "none"]
    /\ shutdown = << >>

\* new PitAirflow(), new MeaterDaemon() and new PitPID(), as index.js makes
\* them
Init == Constructed /\ DaemonConstructed /\ AirflowConstructed

-----------------------------------------------------------------------------
(* The API: setters, updateProbe, removeProbe.  None emits an event.       *)

\* Bookkeeping common to the API calls.
Api(name) ==
    /\ ~crashed
    /\ events' = << >>
    /\ lastOp' = name
    /\ prevMode' = pidMode
    /\ prevI' = pidCurrent.I
    /\ UNCHANGED <<clockVars, tickObs, daemonVars, airflowVars>>

\* set pid(value): each of P, I, D is assigned unless undefined (NULL here)
SetPid(value) ==
    /\ Api("pid")
    /\ Pid' = [P |-> IF value.P # NULL THEN value.P ELSE Pid.P,
               I |-> IF value.I # NULL THEN value.I ELSE Pid.I,
               D |-> IF value.D # NULL THEN value.D ELSE Pid.D]
    /\ UNCHANGED <<cfgVars, pidCurrent, pidMode, pidOutput, pidOutputAvg,
                   setPoint, lidOpenTimeout, tempVars, outVars, unitChanged,
                   lastCtl, ctlArg>>

\* set pidMode(value)
SetPidMode(value) ==
    /\ Api("pidMode")
    /\ pidMode' = value
    /\ lidOpenTimeout' = 0
    /\ pidOutput' = 0
    /\ lastCtl' = "pidMode"
    /\ ctlArg' = value
    /\ UNCHANGED <<cfgVars, Pid, pidCurrent, pidOutputAvg, setPoint, tempVars,
                   outVars, unitChanged>>

\* set setPoint as a plain field assignment, without the pidMode setter
SetSetPointFieldOnly(value) ==
    /\ Api("setPoint")
    /\ setPoint' = value
    /\ lastCtl' = "setPoint"
    /\ ctlArg' = value
    /\ UNCHANGED <<cfgVars, Pid, pidCurrent, pidMode, pidOutput, pidOutputAvg,
                   lidOpenTimeout, tempVars, outVars, unitChanged>>

\* set setPoint(value): this.pidMode = STARTUP (the setter above), then the field
SetSetPoint(value) ==
    /\ Api("setPoint")
    /\ pidMode' = STARTUP
    /\ lidOpenTimeout' = 0
    /\ pidOutput' = 0
    /\ setPoint' = value
    /\ lastCtl' = "setPoint"
    /\ ctlArg' = value
    /\ UNCHANGED <<cfgVars, Pid, pidCurrent, pidOutputAvg, tempVars, outVars,
                   unitChanged>>

\* set pidOutPut(value): this.pidMode = MANUAL, then the clamped output
SetPidOutPut(value) ==
    /\ Api("pidOutPut")
    /\ pidMode' = MANUAL
    /\ lidOpenTimeout' = 0
    /\ pidOutput' = constrain(value, 0, 100 * S)
    /\ lastCtl' = "pidOutPut"
    /\ ctlArg' = value
    /\ UNCHANGED <<cfgVars, Pid, pidCurrent, pidOutputAvg, setPoint, tempVars,
                   outVars, unitChanged>>

CfgFrame == UNCHANGED <<pidVars, tempVars, outVars, unitChanged, lastCtl, ctlArg>>

SetFanMaxSpeed(value) ==
    /\ Api("fanMaxSpeed")
    /\ fanMaxSpeed' = constrain(value, 0, 100 * S)
    /\ UNCHANGED <<fanMaxStartupSpeed, fanActiveFloor, fanMinSpeed, servoMinPos,
                   servoMaxPos, lidOpenOffset, lidOpenDuration>>
    /\ CfgFrame

SetFanMaxStartupSpeed(value) ==
    /\ Api("fanMaxStartupSpeed")
    /\ fanMaxStartupSpeed' = constrain(value, 0, 100 * S)
    /\ UNCHANGED <<fanMaxSpeed, fanActiveFloor, fanMinSpeed, servoMinPos,
                   servoMaxPos, lidOpenOffset, lidOpenDuration>>
    /\ CfgFrame

\* "_fanActiveFloor is constrained to 0-99 to prevent a divide by 0"
SetFanActiveFloor(value) ==
    /\ Api("fanActiveFloor")
    /\ fanActiveFloor' = constrain(value, 0, 99 * S)
    /\ UNCHANGED <<fanMaxSpeed, fanMaxStartupSpeed, fanMinSpeed, servoMinPos,
                   servoMaxPos, lidOpenOffset, lidOpenDuration>>
    /\ CfgFrame

SetFanMinSpeed(value) ==
    /\ Api("fanMinSpeed")
    /\ fanMinSpeed' = constrain(value, 0, 100 * S)
    /\ UNCHANGED <<fanMaxSpeed, fanMaxStartupSpeed, fanActiveFloor, servoMinPos,
                   servoMaxPos, lidOpenOffset, lidOpenDuration>>
    /\ CfgFrame

SetServoMinPos(value) ==
    /\ Api("servoMinPos")
    /\ servoMinPos' = constrain(value, 0, 100 * S)
    /\ UNCHANGED <<fanMaxSpeed, fanMaxStartupSpeed, fanActiveFloor, fanMinSpeed,
                   servoMaxPos, lidOpenOffset, lidOpenDuration>>
    /\ CfgFrame

SetServoMaxPos(value) ==
    /\ Api("servoMaxPos")
    /\ servoMaxPos' = constrain(value, 0, 100 * S)
    /\ UNCHANGED <<fanMaxSpeed, fanMaxStartupSpeed, fanActiveFloor, fanMinSpeed,
                   servoMinPos, lidOpenOffset, lidOpenDuration>>
    /\ CfgFrame

SetLidOpenOffset(value) ==
    /\ Api("lidOpenOffset")
    /\ lidOpenOffset' = constrain(value, 0, 100 * S)
    /\ UNCHANGED <<fanMaxSpeed, fanMaxStartupSpeed, fanActiveFloor, fanMinSpeed,
                   servoMinPos, servoMaxPos, lidOpenDuration>>
    /\ CfgFrame

\* value > LIDOPEN_MIN_AUTORESUME ? value : LIDOPEN_MIN_AUTORESUME
SetLidOpenDuration(value) ==
    /\ Api("lidOpenDuration")
    /\ lidOpenDuration' =
           IF value > LIDOPEN_MIN_AUTORESUME THEN value ELSE LIDOPEN_MIN_AUTORESUME
    /\ UNCHANGED <<fanMaxSpeed, fanMaxStartupSpeed, fanActiveFloor, fanMinSpeed,
                   servoMinPos, servoMaxPos, lidOpenOffset>>
    /\ CfgFrame

\* updateProbe(data): the probe's entry, the unit, the fused temperature
UpdateProbe(address, ambient, dataUnits) ==
    /\ Api(IF dataUnits # units THEN "updateProbeUnit" ELSE "updateProbe")
    /\ unitChanged' = (unitChanged \/ dataUnits # units)
    /\ connectedProbes' =
           [a \in DOMAIN connectedProbes \cup {address} |->
               IF a = address THEN ambient ELSE connectedProbes[a]]
    /\ units' = dataUnits
    \* _setUnits on a unit change clears the average
    /\ temperatureAvg' = IF dataUnits # units THEN NULL ELSE temperatureAvg
    /\ currentTemp' = calcLowerTrimmedMean(connectedProbes')
    /\ UNCHANGED <<cfgVars, pidVars, outVars, lastCtl, ctlArg>>

\* removeProbe(address): delete this._connectedProbes[address], nothing else
RemoveProbe(address) ==
    /\ Api("removeProbe")
    /\ connectedProbes' =
           [a \in DOMAIN connectedProbes \ {address} |-> connectedProbes[a]]
    /\ UNCHANGED <<units, temperatureAvg, currentTemp, cfgVars, pidVars, outVars,
                   unitChanged, lastCtl, ctlArg>>

-----------------------------------------------------------------------------
(* The pieces of a heavy tick                                              *)

\* get hasTemperature
HasTemperature(probes, temp, avg) ==
    /\ Cardinality(DOMAIN probes) > 0
    /\ temp # NULL /\ temp # NaN
    /\ avg # NULL /\ avg # NaN

\* _tempProbeProcessPeriod: the new _temperatureAvg
TempProbeProcessPeriod(temp, avg) ==
    IF temp = NULL THEN avg
    ELSE IF temp = NaN THEN NaN
    ELSE calcExpMovingAverage(TEMPPROBE_AVG_DEN, avg, temp)

\* _getPidIMax (isPitTempReached is pidMode === NORMAL)
GetPidIMax(mode, maxStartup) == IF mode = NORMAL THEN 100 * S ELSE maxStartup

\* _calcPidOutput integrating whenever there is an error, saturated or not
CalcPidOutputNoAntiWindup(gains, cur, mode, lastOutput, sp, temp, avg, hasTemp, maxStartup) ==
    LET error == Num(sp) - temp
        pTerm == IF gains.P < 0
                 THEN MulGain(gains.P,
                              RoundDiv(10 * temp - PID_PONMEER_LAMBDA_10 * Num(sp), 10))
                 ELSE MulGain(gains.P, error)
        high == GetPidIMax(mode, maxStartup)
        integrate == error # 0
        iSum == cur.I + MulGain(gains.I, error)
        iTerm == IF integrate THEN constrain(iSum, 0, high) ELSE cur.I
        dTerm == MulGain(gains.D, avg - temp)
        control == pTerm + iTerm + dTerm
    IN  IF ~hasTemp
        THEN [pidOutput |-> 0, pidCurrent |-> cur, ran |-> FALSE, threw |-> FALSE]
        ELSE IF integrate /\ gains.P < 0
        THEN [pidOutput |-> 0,
              pidCurrent |-> [P |-> pTerm, I |-> iSum, D |-> cur.D],
              ran |-> FALSE, threw |-> TRUE]
        ELSE [pidOutput |-> constrain(control, 0, 100 * S),
              pidCurrent |-> [P |-> pTerm, I |-> iTerm, D |-> dTerm],
              ran |-> TRUE, threw |-> FALSE]

\* _calcPidOutput.  The result: the new _pidOutput and _pidCurrent, whether the
\* computation ran to its end, and whether it threw.  this._isLidOpen is a
\* field no code assigns (the getter is isLidOpen), so that test never returns.
\* With P < 0 the integration branch assigns to the const exHigh, reading the
\* undeclared Pid: the statement throws after _pidCurrent.I was increased.
CalcPidOutput(gains, cur, mode, lastOutput, sp, temp, avg, hasTemp, maxStartup) ==
    LET error == Num(sp) - temp
        pTerm == IF gains.P < 0
                 THEN MulGain(gains.P,
                              RoundDiv(10 * temp - PID_PONMEER_LAMBDA_10 * Num(sp), 10))
                 ELSE MulGain(gains.P, error)
        high == GetPidIMax(mode, maxStartup)
        integrate == \/ (error < 0 /\ lastOutput > 0)
                     \/ (error > 0 /\ lastOutput < high)
        iSum == cur.I + MulGain(gains.I, error)
        iTerm == IF integrate THEN constrain(iSum, 0, high) ELSE cur.I
        dTerm == MulGain(gains.D, avg - temp)
        control == pTerm + iTerm + dTerm
    IN  IF ~hasTemp
        THEN [pidOutput |-> 0, pidCurrent |-> cur, ran |-> FALSE, threw |-> FALSE]
        ELSE IF integrate /\ gains.P < 0
        THEN [pidOutput |-> 0,
              pidCurrent |-> [P |-> pTerm, I |-> iSum, D |-> cur.D],
              ran |-> FALSE, threw |-> TRUE]
        ELSE [pidOutput |-> constrain(control, 0, 100 * S),
              pidCurrent |-> [P |-> pTerm, I |-> iTerm, D |-> dTerm],
              ran |-> TRUE, threw |-> FALSE]

\* The lid and mode step without the halving of the Startup integrator
LidStepNoHalve(mode, integrator, timeout, tempDiff, t, duration, offset) ==
    LET countdownMs == t - timeout
    IN  IF /\ tempDiff <= 0
           /\ duration * 1000 - countdownMs >= LIDOPEN_MIN_AUTORESUME * 1000
        THEN [pidMode |-> NORMAL, integrator |-> integrator,
              lidOpenTimeout |-> 0, threw |-> FALSE]
        ELSE IF countdownMs # 0
        THEN [pidMode |-> mode, integrator |-> integrator,
              lidOpenTimeout |-> countdownMs - TEMP_MEASURE_PERIOD,
              threw |-> FALSE]
        ELSE [pidMode |-> mode, integrator |-> integrator,
              lidOpenTimeout |-> timeout, threw |-> offset > 0]

\* The lid and mode step of doWork (lines 555-575), at millis() = t.
\* lidOpenResumeCountdown is (t - _lidOpenTimeout) / 1000 seconds; the test of
\* branch 1 is taken in milliseconds.  _lidModeShouldActivate calls the getter
\* isPitTempReached as a function: it throws whenever _lidOpenOffset > 0.
LidStep(mode, integrator, timeout, tempDiff, t, duration, offset) ==
    LET countdownMs == t - timeout
    IN  IF /\ tempDiff <= 0
           /\ duration * 1000 - countdownMs >= LIDOPEN_MIN_AUTORESUME * 1000
        THEN [pidMode |-> NORMAL,
              integrator |-> IF mode = STARTUP THEN RoundDiv(integrator, 2)
                             ELSE integrator,
              lidOpenTimeout |-> 0, threw |-> FALSE]
        ELSE IF countdownMs # 0
        THEN [pidMode |-> mode, integrator |-> integrator,
              lidOpenTimeout |-> countdownMs - TEMP_MEASURE_PERIOD,
              threw |-> FALSE]
        ELSE [pidMode |-> mode, integrator |-> integrator,
              lidOpenTimeout |-> timeout, threw |-> offset > 0]

\* fanCurrentMaxSpeed without the Startup case
FanMaxSpeedAnyMode(mode, maxSpeed, maxStartup) == maxSpeed

\* get fanCurrentMaxSpeed
FanCurrentMaxSpeed(mode, maxSpeed, maxStartup) ==
    IF mode = STARTUP THEN maxStartup ELSE maxSpeed

\* The fan speed _commitFanOutput maps the PID output to (lines 369-376)
MappedFanSpeed(out, floor, max) ==
    IF out < floor THEN 0
    ELSE RoundDiv((out - floor) * max, 100 * S - floor)

\* _commitFanOutput: the new fields and the value of the fan event it emits
CommitFanOutput(out, floor, max, minSpeed, tmr, blower) ==
    LET mapped == MappedFanSpeed(out, floor, max)
        direct == mapped >= minSpeed
        runningDur == tmr * TEMP_MEASURE_PERIOD
        targetDur == IF minSpeed = 0 THEN 0
                     ELSE RoundDiv(TEMP_LONG_PWM_CNT * TEMP_MEASURE_PERIOD * mapped,
                                   minSpeed)
        pulse == targetDur > runningDur
        newFanSpeed == IF direct THEN mapped
                       ELSE IF pulse THEN minSpeed ELSE 0
        newTmr == IF direct THEN 0
                  ELSE IF tmr + 1 > TEMP_LONG_PWM_CNT - 1 THEN 0 ELSE tmr + 1
        needBoost == blower = 0
    IN  [fanPct |-> newFanSpeed,
         longPwmTmr |-> newTmr,
         longPwmRemaining |-> IF ~direct /\ pulse THEN targetDur - runningDur ELSE 0,
         lastBlowerOutput |-> newFanSpeed,
         value |-> IF newFanSpeed # 0 /\ needBoost /\ TEMP_OUTADJUST_CNT > 0
                   THEN 100 * S ELSE newFanSpeed]

\* _commitServoOutput emitting as soon as the hold-off counter reaches
\* SERVO_MAX_HOLDOFF
CommitServoOutputEarly(out, minPos, maxPos, pct, holdoff) ==
    LET open == IF out >= SERVO_ACTIVE_CEIL * S THEN 100 * S
                ELSE RoundDiv(out * 100, SERVO_ACTIVE_CEIL)
        output == mapPct(open, minPos, maxPos)
        isBigMove == Abs(output - pct) > SERVO_MIN_THRESH * S
        move == isBigMove \/ holdoff + 1 >= SERVO_MAX_HOLDOFF
    IN  [servoPct |-> IF move THEN output ELSE pct,
         servoHoldoff |-> IF move THEN 0 ELSE holdoff + 1,
         emit |-> move,
         value |-> output]

\* _commitServoOutput: the new fields, and whether a servo event is emitted
CommitServoOutput(out, minPos, maxPos, pct, holdoff) ==
    LET open == IF out >= SERVO_ACTIVE_CEIL * S THEN 100 * S
                ELSE RoundDiv(out * 100, SERVO_ACTIVE_CEIL)
        output == mapPct(open, minPos, maxPos)
        isBigMove == Abs(output - pct) > SERVO_MIN_THRESH * S
        move == isBigMove \/ holdoff + 1 > SERVO_MAX_HOLDOFF
    IN  [servoPct |-> IF move THEN output ELSE pct,
         servoHoldoff |-> IF move THEN 0 ELSE holdoff + 1,
         emit |-> move,
         value |-> output]

FanEvent(v) == [type |-> "fan", value |-> v]
ServoEvent(v) == [type |-> "servo", value |-> v]

\* _emitStatusReport: the snapshot
StatusEvent(mode, probes, temp, sp, u, out, fan, servo, minPos, maxPos) ==
    [type |-> "status",
     value |-> [mode |-> PIDMODE_STR[mode + 1],
                numProbes |-> Cardinality(DOMAIN probes),
                pitTemp |-> temp,
                setPoint |-> sp,
                units |-> u,
                pidOutput |-> out,
                fanPct |-> fan,
                servoPct |-> mapRange(servo, minPos, maxPos, 0, 100 * S)]]

\* The commit with a servo event whether or not the servo moved
CommitEventsServoAlways(fanValue, servoEmit, servoValue, status) ==
    <<FanEvent(fanValue), ServoEvent(servoValue), status>>

\* The commit with the servo written before the fan
CommitEventsServoFirst(fanValue, servoEmit, servoValue, status) ==
    (IF servoEmit THEN <<ServoEvent(servoValue)>> ELSE << >>)
        \o <<FanEvent(fanValue), status>>

\* _commitPidOutput: the events of the commit, in the order of emission
CommitEvents(fanValue, servoEmit, servoValue, status) ==
    <<FanEvent(fanValue)>>
        \o (IF servoEmit THEN <<ServoEvent(servoValue)>> ELSE << >>)
        \o <<status>>

-----------------------------------------------------------------------------
(* doWork                                                                  *)

\* One invocation of doWork by its timer, d milliseconds after the previous
\* one.  The whole handler is one step: the long-PWM expiry, the period
\* counter, the elapsed test and, on a heavy tick, the measurement, the PID
\* computation, the lid and mode step and the commit.  An exception leaves
\* the handler where it is thrown: what was assigned before stays assigned,
\* no timer is scheduled, and the process ends.
DoWork(d) ==
    LET t == now + d
        el == t - lastWorkMillis
        expire == longPwmRemaining # 0 /\ el > longPwmRemaining
        ev0 == IF expire THEN <<FanEvent(fanMaxSpeed)>> ELSE << >>
        blower0 == IF expire THEN 0 ELSE lastBlowerOutput
        remaining0 == IF expire THEN 0 ELSE longPwmRemaining
        counter0 == IF el * TEMP_OUTADJUST_CNT > periodCounter * TEMP_MEASURE_PERIOD
                    THEN periodCounter + 1 ELSE periodCounter
        isHeavy == ~(el < TEMP_MEASURE_PERIOD)
        \* the heavy tick
        avg == TempProbeProcessPeriod(currentTemp, temperatureAvg)
        hasTemp == HasTemperature(connectedProbes, currentTemp, avg)
        auto == pidMode <= AUTO_LAST
        calc == IF auto
                THEN CalcPidOutput(Pid, pidCurrent, pidMode, pidOutput, setPoint,
                                   currentTemp, avg, hasTemp, fanMaxStartupSpeed)
                ELSE [pidOutput |-> pidOutput, pidCurrent |-> pidCurrent,
                      ran |-> FALSE, threw |-> FALSE]
        tempDiff == Num(setPoint) - Num(currentTemp)
        lid == LidStep(pidMode, calc.pidCurrent.I, lidOpenTimeout, tempDiff, t,
                       lidOpenDuration, lidOpenOffset)
        threw == calc.threw \/ lid.threw
        outAvg == calcExpMovingAverage(PID_OUTPUT_AVG_DEN, pidOutputAvg,
                                       calc.pidOutput)
        fan == CommitFanOutput(calc.pidOutput, fanActiveFloor,
                               FanCurrentMaxSpeed(lid.pidMode, fanMaxSpeed,
                                                  fanMaxStartupSpeed),
                               fanMinSpeed, longPwmTmr, blower0)
        servo == CommitServoOutput(calc.pidOutput, servoMinPos, servoMaxPos,
                                   servoPct, servoHoldoff)
        status == StatusEvent(lid.pidMode, connectedProbes, currentTemp, setPoint,
                              units, calc.pidOutput, fan.fanPct, servo.servoPct,
                              servoMinPos, servoMaxPos)
    IN
    /\ ~crashed
    /\ pendingTimers > 0
    /\ now' = t
    /\ lastOp' = "doWork"
    /\ heavy' = isHeavy
    /\ elapsed' = el
    /\ prevMode' = pidMode
    /\ prevI' = pidCurrent.I
    /\ before' = [lidOpenTimeout |-> lidOpenTimeout, fanPct |-> fanPct,
                  lastBlowerOutput |-> lastBlowerOutput, servoPct |-> servoPct,
                  servoHoldoff |-> servoHoldoff, longPwmTmr |-> longPwmTmr,
                  longPwmRemaining |-> longPwmRemaining, pidOutput |-> pidOutput,
                  sinceServo |-> sinceServo]
    /\ calcI' = IF isHeavy THEN calc.pidCurrent.I ELSE pidCurrent.I
    /\ UNCHANGED <<cfgVars, Pid, setPoint, units, currentTemp, connectedProbes,
                   lastCtl, ctlArg, daemonVars, airflowVars>>
    /\ IF ~isHeavy
       THEN \* setTimeout(doWork, DO_WORK_PERIOD); return
            /\ periodCounter' = counter0
            /\ longPwmRemaining' = remaining0
            /\ lastBlowerOutput' = blower0
            /\ events' = ev0
            /\ pidRan' = FALSE
            /\ unitTick' = FALSE
            /\ UNCHANGED <<pidCurrent, pidMode, pidOutput, pidOutputAvg,
                           lidOpenTimeout, temperatureAvg, lastWorkMillis,
                           longPwmTmr, fanPct, servoPct, servoHoldoff,
                           pendingTimers, crashed, unitChanged,
                           prevStatusMillis, lastStatusMillis>>
       ELSE /\ periodCounter' = 1
            /\ lastWorkMillis' = t
            /\ temperatureAvg' = avg
            /\ pidOutput' = calc.pidOutput
            /\ pidRan' = calc.ran
            /\ unitTick' = (unitChanged /\ auto /\ hasTemp)
            /\ unitChanged' = (unitChanged /\ ~(auto /\ hasTemp))
            /\ IF threw
               THEN /\ crashed' = TRUE
                    /\ pendingTimers' = pendingTimers - 1
                    /\ pidCurrent' = calc.pidCurrent
                    /\ longPwmRemaining' = remaining0
                    /\ lastBlowerOutput' = blower0
                    /\ events' = ev0
                    /\ UNCHANGED <<pidMode, pidOutputAvg, lidOpenTimeout,
                                   longPwmTmr, fanPct, servoPct, servoHoldoff,
                                   prevStatusMillis, lastStatusMillis>>
               ELSE /\ pidCurrent' = [calc.pidCurrent EXCEPT !.I = lid.integrator]
                    /\ pidMode' = lid.pidMode
                    /\ lidOpenTimeout' = lid.lidOpenTimeout
                    /\ pidOutputAvg' = outAvg
                    /\ fanPct' = fan.fanPct
                    /\ longPwmTmr' = fan.longPwmTmr
                    /\ longPwmRemaining' = fan.longPwmRemaining
                    /\ lastBlowerOutput' = fan.lastBlowerOutput
                    /\ servoPct' = servo.servoPct
                    /\ servoHoldoff' = servo.servoHoldoff
                    /\ events' = ev0 \o CommitEvents(fan.value, servo.emit,
                                                     servo.value, status)
                    /\ prevStatusMillis' = lastStatusMillis
                    /\ lastStatusMillis' = t
                    /\ UNCHANGED <<pendingTimers, crashed>>
    /\ fanCmd' = IF \E i \in DOMAIN events' : events'[i].type = "fan"
                 THEN LET last == CHOOSE i \in DOMAIN events' :
                                     /\ events'[i].type = "fan"
                                     /\ \A j \in DOMAIN events' :
                                           events'[j].type = "fan" => j <= i
                      IN  events'[last].value
                 ELSE fanCmd
    /\ sinceServo' = IF \E i \in DOMAIN events' : events'[i].type = "servo"
                     THEN 0
                     ELSE IF \E i \in DOMAIN events' : events'[i].type = "status"
                          THEN sinceServo + 1
                          ELSE sinceServo

-----------------------------------------------------------------------------
(* Specifications                                                          *)

\* Inputs of the API in Spec
Addresses == {"a1"}
Ambients == {70 * S, 250 * S}
SetPoints == {230 * S}
OutPuts == {55 * S, 150 * S}
PidInputs == {[P |-> 0 - 25000, I |-> NULL, D |-> NULL]}

Call(A) == calls < MaxCalls /\ A /\ calls' = calls + 1 /\ UNCHANGED ticks

Tick == /\ ticks < MaxTicks
        /\ \E d \in Delays : DoWork(d)
        /\ ticks' = ticks + 1
        /\ UNCHANGED calls

CallUpdateProbe ==
    Call(\E a \in Addresses, v \in Ambients, u \in Units : UpdateProbe(a, v, u))
CallRemoveProbe == Call(\E a \in Addresses : RemoveProbe(a))
CallSetPoint == Call(\E v \in SetPoints : SetSetPoint(v))
CallPidMode == Call(\E m \in Modes : SetPidMode(m))
CallPidOutPut == Call(\E v \in OutPuts : SetPidOutPut(v))
CallPid == Call(\E g \in PidInputs : SetPid(g))
CallFanMaxStartupSpeed == Call(SetFanMaxStartupSpeed(0))
CallServoMaxPos == Call(SetServoMaxPos(0))

Next ==
    \/ Tick
    \/ CallUpdateProbe
    \/ CallRemoveProbe
    \/ CallSetPoint
    \/ CallPidMode
    \/ CallPidOutPut
    \/ CallPid
    \/ CallFanMaxStartupSpeed
    \/ CallServoMaxPos

Spec == Init /\ [][Next]_vars

-----------------------------------------------------------------------------
(* The controller as index.js runs it                                      *)

\* index.js constructs the controller and, in the same turn of the event
\* loop, assigns pid, fanMinSpeed, fanMaxSpeed, fanMaxStartupSpeed,
\* fanActiveFloor, servoMinPos, servoMaxPos, setPoint, lidOpenOffset and
\* lidOpenDuration from the configuration, each key with the default index.js
\* gives it.  Afterwards it calls no setter: probe updates, probe disconnects
\* and the timer are all that reaches the controller.  The configurations
\* drawn here are index.js's defaults, with the gains and servo.maxPosition
\* varied.
OrchGains == {[P |-> 25000, I |-> 35, D |-> 60000],
              [P |-> 0 - 25000, I |-> 35, D |-> 60000]}
OrchServoMax == {0, 100 * S}
OrchSetPoint == 230 * S

\* Probe events and timer firings in one behaviour of SpecOrch
MaxProbeEvents == 4
MaxOrchTicks == 4
OrchAddresses == {"a1", "a2"}
\* daemon.units is one configured unit: every reading carries it
OrchUnits == {"F"}

InitOrch ==
    /\ Pid \in OrchGains
    /\ pidCurrent = [P |-> 0, I |-> 0, D |-> 0]
    /\ pidMode = STARTUP
    /\ pidOutput = 0
    /\ pidOutputAvg = 0
    /\ lastWorkMillis = StartMillis
    /\ periodCounter = 1
    /\ longPwmTmr = 1
    /\ longPwmRemaining = 0
    /\ units = "null"
    /\ setPoint = OrchSetPoint
    /\ currentTemp = NULL
    /\ temperatureAvg = NULL
    /\ fanMaxSpeed = constrain(100 * S, 0, 100 * S)
    /\ fanMaxStartupSpeed = constrain(100 * S, 0, 100 * S)
    /\ fanActiveFloor = constrain(0, 0, 99 * S)
    /\ fanMinSpeed = constrain(0, 0, 100 * S)
    /\ servoMinPos = constrain(0, 0, 100 * S)
    /\ servoMaxPos \in {constrain(v, 0, 100 * S) : v \in OrchServoMax}
    /\ fanPct = 0
    /\ lastBlowerOutput = 0
    /\ servoPct = 0
    /\ servoHoldoff = 1
    /\ lidOpenOffset = constrain(5 * S, 0, 100 * S)
    /\ lidOpenDuration = 240
    /\ lidOpenTimeout = 0
    /\ connectedProbes = << >>
    /\ now = StartMillis
    /\ pendingTimers = 1
    /\ crashed = FALSE
    /\ events = << >>
    /\ lastOp = "configure"
    /\ heavy = TRUE
    /\ pidRan = FALSE
    /\ elapsed = StartMillis
    /\ unitTick = FALSE
    /\ prevMode = STARTUP
    /\ prevI = 0
    /\ unitChanged = FALSE
    /\ lastCtl = "setPoint"
    /\ ctlArg = OrchSetPoint
    /\ prevStatusMillis = NULL
    /\ lastStatusMillis = NULL
    /\ before = [lidOpenTimeout |-> 0, fanPct |-> 0, lastBlowerOutput |-> 0,
                 servoPct |-> 0, servoHoldoff |-> 0, longPwmTmr |-> 0,
                 longPwmRemaining |-> 0, pidOutput |-> 0,
                 sinceServo |-> 0]
    /\ calcI = 0
    /\ fanCmd = 0
    /\ sinceServo = 1
    /\ calls = 0
    /\ ticks = 0
    /\ DaemonConstructed
    /\ AirflowConstructed

ProbeEvent(A) ==
    calls < MaxProbeEvents /\ A /\ calls' = calls + 1 /\ UNCHANGED ticks

OrchTick == /\ ticks < MaxOrchTicks
            /\ \E d \in Delays : DoWork(d)
            /\ ticks' = ticks + 1
            /\ UNCHANGED calls

\* probe.on("update", data => pid.updateProbe(data))
OrchProbeUpdate ==
    ProbeEvent(\E a \in OrchAddresses, v \in Ambients, u \in OrchUnits :
                  UpdateProbe(a, v, u))

\* probe.once("disconnect", id => pid.removeProbe(id))
OrchProbeDisconnect == ProbeEvent(\E a \in OrchAddresses : RemoveProbe(a))

NextOrch == OrchTick \/ OrchProbeUpdate \/ OrchProbeDisconnect

SpecOrch == InitOrch /\ [][NextOrch]_vars

-----------------------------------------------------------------------------
(* The configuration setters alone                                         *)

\* Arguments the setters are called with: below, inside and above the range
\* of a percentage (-1, 99.5, 250) and of the lid duration (seconds)
CfgInputs == {0 - S, 99 * S + 50, 250 * S}
LidDurationInputs == {0 - 1, 30, 31, 600}

Configure(A) == A /\ UNCHANGED <<calls, ticks>>

CfgFanMaxSpeed == Configure(\E v \in CfgInputs : SetFanMaxSpeed(v))
CfgFanMaxStartupSpeed == Configure(\E v \in CfgInputs : SetFanMaxStartupSpeed(v))
CfgFanActiveFloor == Configure(\E v \in CfgInputs : SetFanActiveFloor(v))
CfgFanMinSpeed == Configure(\E v \in CfgInputs : SetFanMinSpeed(v))
CfgServoMinPos == Configure(\E v \in CfgInputs : SetServoMinPos(v))
CfgServoMaxPos == Configure(\E v \in CfgInputs : SetServoMaxPos(v))
CfgLidOpenOffset == Configure(\E v \in CfgInputs : SetLidOpenOffset(v))
CfgLidOpenDuration == Configure(\E v \in LidDurationInputs : SetLidOpenDuration(v))

NextCfg ==
    \/ CfgFanMaxSpeed
    \/ CfgFanMaxStartupSpeed
    \/ CfgFanActiveFloor
    \/ CfgFanMinSpeed
    \/ CfgServoMinPos
    \/ CfgServoMaxPos
    \/ CfgLidOpenOffset
    \/ CfgLidOpenDuration

SpecCfg == Init /\ [][NextCfg]_vars

-----------------------------------------------------------------------------
(* _commitFanOutput alone, over a range of outputs and configurations      *)

\* The state after the constructor and the setters named in c, before the
\* first tick of the timer: c gives the fields the setters wrote.
Configured(c) ==
    /\ Pid = [P |-> 25000, I |-> 35, D |-> 60000]
    /\ pidCurrent = [P |-> 0, I |-> 0, D |-> 0]
    /\ pidMode = c.pidMode
    /\ pidOutput = c.pidOutput
    /\ pidOutputAvg = 0
    /\ lastWorkMillis = StartMillis
    /\ periodCounter = 1
    /\ longPwmTmr = 1
    /\ longPwmRemaining = 0
    /\ units = "null"
    /\ setPoint = c.setPoint
    /\ currentTemp = NULL
    /\ temperatureAvg = NULL
    /\ fanMaxSpeed = c.fanMaxSpeed
    /\ fanMaxStartupSpeed = c.fanMaxStartupSpeed
    /\ fanActiveFloor = c.fanActiveFloor
    /\ fanMinSpeed = c.fanMinSpeed
    /\ servoMinPos = 0
    /\ servoMaxPos = 100 * S
    /\ fanPct = 0
    /\ lastBlowerOutput = 0
    /\ servoPct = 0
    /\ servoHoldoff = 1
    /\ lidOpenOffset = 5 * S
    /\ lidOpenDuration = 240
    /\ lidOpenTimeout = c.lidOpenTimeout
    /\ connectedProbes = << >>
    /\ now = StartMillis
    /\ pendingTimers = 1
    /\ crashed = FALSE
    /\ events = << >>
    /\ lastOp = "configure"
    /\ heavy = TRUE
    /\ pidRan = FALSE
    /\ elapsed = StartMillis
    /\ prevMode = STARTUP
    /\ prevI = 0
    /\ unitTick = FALSE
    /\ unitChanged = FALSE
    /\ lastCtl = c.lastCtl
    /\ ctlArg = c.ctlArg
    /\ prevStatusMillis = NULL
    /\ lastStatusMillis = NULL
    /\ before = [lidOpenTimeout |-> 0, fanPct |-> 0, lastBlowerOutput |-> 0,
                 servoPct |-> 0, servoHoldoff |-> 0, longPwmTmr |-> 0,
                 longPwmRemaining |-> 0, pidOutput |-> 0,
                 sinceServo |-> 0]
    /\ calcI = 0
    /\ fanCmd = 0
    /\ sinceServo = 1
    /\ calls = 0
    /\ ticks = 0
    /\ DaemonConstructed
    /\ AirflowConstructed

\* PID outputs, active floors and maximum speeds _commitFanOutput is applied
\* to; fanMinSpeed is 0 (the default of index.js), so that no long PWM
\* conditions the mapped speed and _fanPct is the mapped speed itself.
FanMapOutputs == {0, 25 * S, 49 * S + 99, 50 * S, 62 * S + 50, 99 * S + 50, 100 * S}
FanMapFloors == {0, 50 * S, 99 * S}
FanMapMaxSpeeds == {0, 80 * S, 100 * S}
FanMapMaxStartupSpeeds == {60 * S, 100 * S}

InitFanMap ==
    \E u \in FanMapOutputs, f \in FanMapFloors, m \in Modes,
       x \in FanMapMaxSpeeds, y \in FanMapMaxStartupSpeeds :
        Configured([pidMode |-> m, pidOutput |-> u, setPoint |-> NULL,
                    fanMaxSpeed |-> x, fanMaxStartupSpeed |-> y,
                    fanActiveFloor |-> f, fanMinSpeed |-> 0,
                    lidOpenTimeout |-> 0, lastCtl |-> "pidMode",
                    ctlArg |-> m])

\* One call of _commitFanOutput()
FanMapCommit ==
    LET fan == CommitFanOutput(pidOutput, fanActiveFloor,
                               FanCurrentMaxSpeed(pidMode, fanMaxSpeed,
                                                  fanMaxStartupSpeed),
                               fanMinSpeed, longPwmTmr, lastBlowerOutput)
    IN  /\ lastOp = "configure"
        /\ lastOp' = "commitFanOutput"
        /\ fanPct' = fan.fanPct
        /\ longPwmTmr' = fan.longPwmTmr
        /\ longPwmRemaining' = fan.longPwmRemaining
        /\ lastBlowerOutput' = fan.lastBlowerOutput
        /\ events' = <<FanEvent(fan.value)>>
        /\ fanCmd' = fan.value
        /\ UNCHANGED <<cfgVars, pidVars, tempVars, servoPct, servoHoldoff,
                       clockVars, heavy, pidRan, elapsed, unitTick,
                       prevStatusMillis, lastStatusMillis, before, calcI,
                       sinceServo, prevMode, prevI, unitChanged, lastCtl, ctlArg, calls,
                       ticks, daemonVars, airflowVars>>

NextFanMap == FanMapCommit

SpecFanMap == InitFanMap /\ [][NextFanMap]_vars

-----------------------------------------------------------------------------
(* The output stage over many ticks: a controller in manual mode, the      *)
(* output set through pidOutPut, the timer firing on time or late          *)

\* pid.setPoint = 230 was assigned, so that no heavy tick leaves manual mode
\* (tempDiff = 230 - null > 0); the fan and servo settings are the
\* constructor's: fanActiveFloor 50, fanMaxSpeed 80, fanMinSpeed 50.
InitFan ==
    Configured([pidMode |-> STARTUP, pidOutput |-> 0, setPoint |-> 230 * S,
                fanMaxSpeed |-> 80 * S, fanMaxStartupSpeed |-> 100 * S,
                fanActiveFloor |-> 50 * S, fanMinSpeed |-> 50 * S,
                lidOpenTimeout |-> 0, lastCtl |-> "setPoint",
                ctlArg |-> 230 * S])

MaxFanTicks == 13
MaxFanCalls == 2

\* The outputs assigned: mapped fan speeds 8 and 9.6 (long PWM) and 80
FanOutPuts == {55 * S, 56 * S, 100 * S}

\* The timer fires after DO_WORK_PERIOD, or a heavy tick's worth later
FanDelays == {DO_WORK_PERIOD, 4 * DO_WORK_PERIOD}

FanTick ==
    /\ ticks < MaxFanTicks
    /\ \E d \in FanDelays : DoWork(d)
    /\ ticks' = ticks + 1
    /\ UNCHANGED calls

FanOutPut ==
    /\ calls < MaxFanCalls
    /\ \E v \in FanOutPuts : SetPidOutPut(v)
    /\ calls' = calls + 1
    /\ UNCHANGED ticks

NextFan == FanTick \/ FanOutPut

SpecFan == InitFan /\ [][NextFan]_vars

-----------------------------------------------------------------------------
(* The probe map: readings of up to four probes arriving, probes removed   *)

ProbeAddresses == {"a1", "a2", "a3", "a4"}
ProbeAmbients == {75 * S, 225 * S, 226 * S, 228 * S}
MaxProbeCalls == 5

ProbesUpdate ==
    /\ calls < MaxProbeCalls
    /\ \E a \in ProbeAddresses, v \in ProbeAmbients : UpdateProbe(a, v, "F")
    /\ calls' = calls + 1
    /\ UNCHANGED ticks

ProbesRemove ==
    /\ calls < MaxProbeCalls
    /\ \E a \in ProbeAddresses : RemoveProbe(a)
    /\ calls' = calls + 1
    /\ UNCHANGED ticks

NextProbes == ProbesUpdate \/ ProbesRemove

SpecProbes == Init /\ [][NextProbes]_vars

-----------------------------------------------------------------------------
(* MeaterDaemon: discovery, the blacklist, and the probes it tracks        *)

MAX_CONNECTION_FAILURES == 10

\* Calls of the daemon's API, timers fired, probe objects made for one
\* address, and entries of the blacklist in one behaviour
MaxDaemonCalls == 3
MaxDaemonTicks == 4
MaxAttempts == 2
MaxBlacklist == 2

\* What this._adapter.devices() returns: nothing, one probe, every device
DeviceLists == {{}, {[oui |-> APPTION_LABS, nic |-> 1]}, MACs}

\* What the battery characteristic reads: 0, 70 %, 100 %, and more
BattBuffers == {<<0, 0>>, <<7, 0>>, <<10, 0>>, <<11, 0>>, <<0, 1>>}

\* The addresses blacklist() and whitelist() are called with
Meaters == {id \in MACs : id.oui = APPTION_LABS}

\* A daemon that was started and has seen MAX_CONNECTION_FAILURES connection
\* attempts fail since, all of them untracked again
DaemonFailing ==
    /\ active = TRUE
    /\ errCount = MAX_CONNECTION_FAILURES
    /\ restartCount = 0
    /\ blacklist = << >>
    /\ meaters = << >>
    /\ probeObjs = {}
    /\ created = [id \in MACs |-> 0]
    /\ updateTimers = 1
    /\ awaiting = 0
    /\ restartTimers = 0
    /\ startTimers = 0
    /\ enumerated = {}

InitDaemon ==
    Constructed /\ (DaemonConstructed \/ DaemonFailing) /\ AirflowConstructed

\* A step of the daemon or of a probe, with the events it emits; it leaves
\* the controller alone
DaemonEmit(name, emitted) ==
    /\ lastOp' = name
    /\ events' = emitted
    /\ UNCHANGED <<cfgVars, pidVars, tempVars, outVars, clockVars, tickObs,
                   prevMode, prevI, unitChanged, lastCtl, ctlArg, airflowVars>>

DaemonStep(name) == DaemonEmit(name, << >>)

DaemonCall(name) ==
    /\ calls < MaxDaemonCalls
    /\ calls' = calls + 1
    /\ UNCHANGED ticks
    /\ DaemonStep(name)

DaemonTimer(name) ==
    /\ ticks < MaxDaemonTicks
    /\ ticks' = ticks + 1
    /\ UNCHANGED calls
    /\ DaemonStep(name)

\* isBlacklisted(id): this._blacklist.includes(id)
isBlacklisted(id) == \E i \in DOMAIN blacklist : blacklist[i] = id

\* blacklist(id): this._blacklist.push(id)
Blacklist(id) ==
    /\ Len(blacklist) < MaxBlacklist
    /\ DaemonCall("blacklist")
    /\ blacklist' = Append(blacklist, id)
    /\ UNCHANGED <<active, errCount, restartCount, meaters, probeObjs, created,
                   updateTimers, awaiting, restartTimers, startTimers,
                   enumerated>>

\* removeItem with the filter inverted: it keeps the item and drops the rest
removeItemInverted(arr, item) == SelectSeq(arr, LAMBDA value : value = item)

\* removeItem(arr, item): arr.filter((value) => value !== item)
removeItem(arr, item) == SelectSeq(arr, LAMBDA value : value # item)

\* whitelist(id): this._blacklist = removeItem(this._blacklist, id)
Whitelist(id) ==
    /\ DaemonCall("whitelist")
    /\ blacklist' = removeItem(blacklist, id)
    /\ UNCHANGED <<active, errCount, restartCount, meaters, probeObjs, created,
                   updateTimers, awaiting, restartTimers, startTimers,
                   enumerated>>

\* start(), once the adapter is there and discovery has started
Started ==
    /\ active' = TRUE
    /\ errCount' = 0
    /\ restartCount' = restartCount + 1
    /\ updateTimers' = updateTimers + 1
    /\ UNCHANGED <<blacklist, meaters, probeObjs, created, awaiting,
                   restartTimers, enumerated>>

DaemonStart == DaemonCall("start") /\ Started /\ UNCHANGED startTimers

\* stop() that also forgets the probes it tracks
DaemonStopDestructive ==
    /\ DaemonCall("stop")
    /\ active' = FALSE
    /\ meaters' = << >>
    /\ probeObjs' = {}
    /\ UNCHANGED <<errCount, restartCount, blacklist, created,
                   updateTimers, awaiting, restartTimers, startTimers,
                   enumerated>>

\* stop(), once discovery has stopped
DaemonStop ==
    /\ DaemonCall("stop")
    /\ active' = FALSE
    /\ UNCHANGED <<errCount, restartCount, blacklist, meaters, probeObjs, created,
                   updateTimers, awaiting, restartTimers, startTimers,
                   enumerated>>

\* restart(): await this.stop(); setTimeout(() => this.start(), UPDATE_MS)
Restarted ==
    /\ active' = FALSE
    /\ startTimers' = startTimers + 1
    /\ UNCHANGED <<errCount, restartCount, blacklist, meaters, probeObjs, created,
                   updateTimers, awaiting, enumerated>>

DaemonRestart == DaemonCall("restart") /\ Restarted /\ UNCHANGED restartTimers

\* The timer of restart() fires: start()
StartTimer ==
    /\ startTimers > 0
    /\ DaemonTimer("start")
    /\ Started
    /\ startTimers' = startTimers - 1

\* The timer _update set on too many failures fires: restart()
RestartTimer ==
    /\ restartTimers > 0
    /\ DaemonTimer("restart")
    /\ Restarted
    /\ restartTimers' = restartTimers - 1

\* _update() without the return after scheduling the restart: it goes on to
\* enumerate the devices
DaemonUpdateNoReturn ==
    /\ updateTimers > 0
    /\ DaemonTimer("_update")
    /\ updateTimers' = updateTimers - 1
    /\ restartTimers' = IF active /\ errCount > MAX_CONNECTION_FAILURES
                        THEN restartTimers + 1 ELSE restartTimers
    /\ awaiting' = IF active THEN awaiting + 1 ELSE awaiting
    /\ UNCHANGED <<active, errCount, restartCount, blacklist, meaters, probeObjs,
                   created, startTimers, enumerated>>

\* _update() up to its await: nothing when inactive; a restart in UPDATE_MS
\* when the failures exceed MAX_CONNECTION_FAILURES; else devices() is awaited
DaemonUpdate ==
    /\ updateTimers > 0
    /\ DaemonTimer("_update")
    /\ updateTimers' = updateTimers - 1
    /\ restartTimers' = IF active /\ errCount > MAX_CONNECTION_FAILURES
                        THEN restartTimers + 1 ELSE restartTimers
    /\ awaiting' = IF active /\ ~(errCount > MAX_CONNECTION_FAILURES)
                   THEN awaiting + 1 ELSE awaiting
    /\ UNCHANGED <<active, errCount, restartCount, blacklist, meaters, probeObjs,
                   created, startTimers, enumerated>>

\* _attemptConnection(id) makes a probe without consulting the blacklist
AttemptConnectionAlways(id) == TRUE

\* _attemptConnection(id): whether it makes a probe, connects and tracks it
AttemptConnection(id) == ~isBlacklisted(id)

\* _update() from its await on: devices() gave currentDevices (a device
\* listed twice is attempted once: the first attempt tracks it at once);
\* finally the next _update is scheduled
DaemonUpdateResume(currentDevices) ==
    LET attempted == {id \in currentDevices :
                         /\ id.oui = APPTION_LABS
                         /\ id \notin DOMAIN meaters
                         /\ AttemptConnection(id)}
    IN  /\ awaiting > 0
        /\ \A id \in attempted : created[id] < MaxAttempts
        /\ DaemonStep("_update:devices")
        /\ awaiting' = awaiting - 1
        /\ enumerated' = currentDevices
        /\ created' = [id \in MACs |->
                          IF id \in attempted THEN created[id] + 1 ELSE created[id]]
        /\ probeObjs' = probeObjs \cup
                        {[mac |-> id, gen |-> created[id] + 1,
                          state |-> "connecting"] : id \in attempted}
        /\ meaters' = [id \in DOMAIN meaters \cup attempted |->
                          IF id \in attempted THEN created[id] + 1 ELSE meaters[id]]
        /\ updateTimers' = updateTimers + 1
        /\ UNCHANGED <<active, errCount, restartCount, blacklist,
                       restartTimers, startTimers, calls, ticks>>

\* delete this._meaters[id]
Untrack(id) == [m \in DOMAIN meaters \ {id} |-> meaters[m]]

\* What a probe and the daemon emit, with the address they are about
Emitted(type, id) == [type |-> type, value |-> id]

\* bytesToInt(byte0, byte1): (byte1 << 8) + byte0
bytesToInt(byte0, byte1) == byte1 * 256 + byte0

\* The "update" a probe emits when it has read battBuffer
UpdateEvent(id, battBuffer) ==
    [type |-> "update",
     value |-> [address |-> id,
                battery |-> bytesToInt(battBuffer[1], battBuffer[2]) * 10]]

\* connect() of a probe succeeds: it awaits a first update(), which reads,
\* emits "update" and sets the timer of the next one, and then emits
\* "connect", on which the daemon emits probeConnect
ProbeConnected(p, battBuffer) ==
    /\ p \in probeObjs /\ p.state = "connecting"
    /\ DaemonEmit("connect", <<UpdateEvent(p.mac, battBuffer),
                               Emitted("connect", p.mac),
                               Emitted("probeConnect", p.mac)>>)
    /\ probeObjs' = (probeObjs \ {p}) \cup {[p EXCEPT !.state = "connected"]}
    /\ UNCHANGED <<active, errCount, restartCount, blacklist, meaters, created,
                   updateTimers, awaiting, restartTimers, startTimers,
                   enumerated, calls, ticks>>

\* connect() whose first update() fails to read: update() catches the error
\* and awaits disconnect(), which emits "disconnect", on which the daemon
\* emits probeDisconnect, removes the probe's listeners and untracks the
\* address; connect() then goes on to emit "connect", which nobody hears
ProbeConnectedReadFailed(p) ==
    /\ p \in probeObjs /\ p.state = "connecting"
    /\ DaemonEmit("connect", <<Emitted("disconnect", p.mac),
                               Emitted("probeDisconnect", p.mac),
                               Emitted("connect", p.mac)>>)
    /\ probeObjs' = probeObjs \ {p}
    /\ meaters' = Untrack(p.mac)
    /\ UNCHANGED <<active, errCount, restartCount, blacklist, created,
                   updateTimers, awaiting, restartTimers, startTimers,
                   enumerated, calls, ticks>>

\* connect() whose first update() finds isConnected() false: update() emits
\* nothing and sets no timer; connect() emits "connect" and the daemon
\* probeConnect for a probe that will never poll
ProbeConnectedSilent(p) ==
    /\ p \in probeObjs /\ p.state = "connecting"
    /\ DaemonEmit("connect", <<Emitted("connect", p.mac),
                               Emitted("probeConnect", p.mac)>>)
    /\ probeObjs' = (probeObjs \ {p}) \cup {[p EXCEPT !.state = "silent"]}
    /\ UNCHANGED <<active, errCount, restartCount, blacklist, meaters, created,
                   updateTimers, awaiting, restartTimers, startTimers,
                   enumerated, calls, ticks>>

\* connect() fails with the device in hand: "connectFailed", on which the
\* daemon emits probeDisconnect, untracks the address and counts the failure
ProbeConnectFailed(p) ==
    /\ p \in probeObjs /\ p.state = "connecting"
    /\ DaemonEmit("connectFailed", <<Emitted("connectFailed", p.mac),
                                     Emitted("probeDisconnect", p.mac)>>)
    /\ probeObjs' = probeObjs \ {p}
    /\ meaters' = Untrack(p.mac)
    /\ errCount' = errCount + 1
    /\ UNCHANGED <<active, restartCount, blacklist, created, updateTimers,
                   awaiting, restartTimers, startTimers, enumerated, calls,
                   ticks>>

\* connect() when waitDevice() times out: this._device is still null, so
\* this._device.disconnect() in the catch throws, connect() rejects, nothing
\* is emitted and the daemon keeps the probe in _meaters
ProbeWaitTimeout(p) ==
    /\ p \in probeObjs /\ p.state = "connecting"
    /\ DaemonStep("waitDevice")
    /\ probeObjs' = (probeObjs \ {p}) \cup {[p EXCEPT !.state = "rejected"]}
    /\ UNCHANGED <<active, errCount, restartCount, blacklist, meaters, created,
                   updateTimers, awaiting, restartTimers, startTimers,
                   enumerated, calls, ticks>>

\* update() of a connected probe reads its characteristics: "update" with
\* the battery of battBuffer, and the next update() in UPDATE_MS
ProbePoll(p, battBuffer) ==
    /\ p \in probeObjs /\ p.state = "connected"
    /\ DaemonEmit("update", <<UpdateEvent(p.mac, battBuffer)>>)
    /\ UNCHANGED <<daemonVars, calls, ticks>>

\* update() of a connected probe finds isConnected() false: nothing is
\* read, nothing emitted, no error raised, and no next update() is set
ProbePollSilent(p) ==
    /\ p \in probeObjs /\ p.state = "connected"
    /\ DaemonStep("update:notConnected")
    /\ probeObjs' = (probeObjs \ {p}) \cup {[p EXCEPT !.state = "silent"]}
    /\ UNCHANGED <<active, errCount, restartCount, blacklist, meaters, created,
                   updateTimers, awaiting, restartTimers, startTimers,
                   enumerated, calls, ticks>>

\* update() fails to read and the daemon counts it as a connection failure
ProbeDisconnectCounted(p) ==
    /\ p \in probeObjs /\ p.state = "connected"
    /\ DaemonEmit("disconnect", <<Emitted("disconnect", p.mac),
                                  Emitted("probeDisconnect", p.mac)>>)
    /\ probeObjs' = probeObjs \ {p}
    /\ meaters' = Untrack(p.mac)
    /\ errCount' = errCount + 1
    /\ UNCHANGED <<active, restartCount, blacklist, created,
                   updateTimers, awaiting, restartTimers, startTimers,
                   enumerated, calls, ticks>>

\* update() of a connected probe fails to read: disconnect(), "disconnect",
\* on which the daemon emits probeDisconnect and untracks the address; no
\* further update() is scheduled
ProbeDisconnect(p) ==
    /\ p \in probeObjs /\ p.state = "connected"
    /\ DaemonEmit("disconnect", <<Emitted("disconnect", p.mac),
                                  Emitted("probeDisconnect", p.mac)>>)
    /\ probeObjs' = probeObjs \ {p}
    /\ meaters' = Untrack(p.mac)
    /\ UNCHANGED <<active, errCount, restartCount, blacklist, created,
                   updateTimers, awaiting, restartTimers, startTimers,
                   enumerated, calls, ticks>>

NextDaemon ==
    \/ DaemonStart
    \/ DaemonStop
    \/ DaemonRestart
    \/ \E id \in Meaters : Blacklist(id)
    \/ \E id \in Meaters : Whitelist(id)
    \/ StartTimer
    \/ RestartTimer
    \/ DaemonUpdate
    \/ \E currentDevices \in DeviceLists : DaemonUpdateResume(currentDevices)
    \/ \E p \in probeObjs : ProbeConnected(p, <<10, 0>>)
    \/ \E p \in probeObjs : ProbeConnectFailed(p)
    \/ \E p \in probeObjs : ProbeDisconnect(p)

SpecDaemon == InitDaemon /\ [][NextDaemon]_vars

-----------------------------------------------------------------------------
(* The daemon and the life of its probes: discovery, connection attempts   *)
(* that succeed, fail or time out, polling, disconnection                  *)

NextMeater ==
    \/ DaemonStart
    \/ DaemonStop
    \/ DaemonRestart
    \/ StartTimer
    \/ DaemonUpdate
    \/ \E currentDevices \in DeviceLists : DaemonUpdateResume(currentDevices)
    \/ \E p \in probeObjs, battBuffer \in BattBuffers :
          ProbeConnected(p, battBuffer)
    \/ \E p \in probeObjs : ProbeConnectedReadFailed(p)
    \/ \E p \in probeObjs : ProbeConnectedSilent(p)
    \/ \E p \in probeObjs : ProbeConnectFailed(p)
    \/ \E p \in probeObjs : ProbeWaitTimeout(p)
    \/ \E p \in probeObjs, battBuffer \in BattBuffers : ProbePoll(p, battBuffer)
    \/ \E p \in probeObjs : ProbePollSilent(p)
    \/ \E p \in probeObjs : ProbeDisconnect(p)

SpecMeater == Init /\ [][NextMeater]_vars

-----------------------------------------------------------------------------
(* PitAirflow: commands to a driver that may not be initialized, and the   *)
(* SIGINT handler of index.js                                              *)

DRIVER_NUM_RETRIES == 5
DRIVER_TIMEOUT == 100
MOTOR_OFF == 0
MOTOR_MIN == 0
MOTOR_MAX == 100

\* Calls of PitAirflow in one behaviour, and commands waiting for a retry
\* at a time
MaxAirflowCalls == 6
MaxPending == 2

\* The speeds and positions commanded
AirflowValues == {0, 50 * S}

\* The process is gone: exit(0), an exception thrown in a timer callback, or
\* the SIGINT handler rejecting
AirflowDown ==
    \/ shutdown # << >> /\ shutdown[Len(shutdown)] \in {"exit", "threw"}
    \/ lastCmd.tries > 0 /\ lastCmd.outcome \in {"timeout", "driverError"}

\* A step of PitAirflow or of the handler; it leaves the controller alone
AirflowStep(name) ==
    /\ ~AirflowDown
    /\ lastOp' = name
    /\ events' = << >>
    /\ UNCHANGED <<cfgVars, pidVars, tempVars, outVars, clockVars, tickObs,
                   prevMode, prevI, unitChanged, lastCtl, ctlArg, ticks>>

\* setFanSpeed(value) / setDamperPosition(value), invoked for the tries-th
\* retry of a command (0: by the caller) with timers the retries pending:
\* uninitialized, it throws once the retries exceed DRIVER_NUM_RETRIES and
\* else counts a retry and sets its timer; initialized, it zeroes the
\* retries and writes to the driver, which throws while the PCA9685 made
\* last has not been initialized by its own timer
MotorCommand(cmd, value, tries, timers) ==
    LET retries == IF cmd = "fan" THEN pit.fanRetries ELSE pit.damperRetries
        counted(n) == IF cmd = "fan" THEN [pit EXCEPT !.fanRetries = n]
                                     ELSE [pit EXCEPT !.damperRetries = n]
        position == constrain(value, MOTOR_MIN * S, MOTOR_MAX * S)
        applied == IF cmd = "fan"
                   THEN [counted(0) EXCEPT !.fanSpeed =
                            IF value = MOTOR_OFF THEN MOTOR_OFF ELSE position]
                   ELSE [counted(0) EXCEPT !.damperPosition = position]
        done(outcome) == [cmd |-> cmd, value |-> value, tries |-> tries,
                          outcome |-> outcome]
    IN  IF ~pit.initialized
        THEN IF retries > DRIVER_NUM_RETRIES
             THEN /\ pit' = pit
                  /\ retryTimers' = timers
                  /\ lastCmd' = done("timeout")
             ELSE /\ pit' = counted(retries + 1)
                  /\ retryTimers' = Append(timers,
                                        [cmd |-> cmd, value |-> value,
                                         tries |-> tries + 1,
                                         waitFor |-> driverTimers])
                  /\ lastCmd' = done("queued")
        ELSE IF driverTimers > 0
             THEN /\ pit' = counted(0)
                  /\ retryTimers' = timers
                  /\ lastCmd' = done("driverError")
             ELSE /\ pit' = applied
                  /\ retryTimers' = timers
                  /\ lastCmd' = done("applied")

\* What reaches the shutdown record: a fan command applied once the handler
\* has run
FanLogged ==
    IF /\ shutdown # << >> /\ lastCmd'.cmd = "fan"
       /\ lastCmd'.outcome = "applied"
    THEN Append(shutdown, IF pit'.fanSpeed = MOTOR_OFF THEN "fan0" ELSE "fan")
    ELSE shutdown

\* pit.setFanSpeed(value), as the listener of the controller's output calls it
SetFanSpeed(value) ==
    /\ calls < MaxAirflowCalls /\ Len(retryTimers) < MaxPending
    /\ AirflowStep("setFanSpeed")
    /\ calls' = calls + 1
    /\ MotorCommand("fan", value, 0, retryTimers)
    /\ shutdown' = FanLogged
    /\ UNCHANGED <<daemonVars, driverTimers>>

\* pit.setDamperPosition(value)
SetDamperPosition(value) ==
    /\ calls < MaxAirflowCalls /\ Len(retryTimers) < MaxPending
    /\ AirflowStep("setDamperPosition")
    /\ calls' = calls + 1
    /\ MotorCommand("damper", value, 0, retryTimers)
    /\ UNCHANGED <<daemonVars, driverTimers, shutdown>>

\* A retry timer fires, DRIVER_TIMEOUT after it was set: the timers fire in
\* the order they were set, and after the driver timers set before them
RetryTimer ==
    /\ retryTimers # << >>
    /\ Head(retryTimers).waitFor = 0
    /\ AirflowStep("retry")
    /\ MotorCommand(Head(retryTimers).cmd, Head(retryTimers).value,
                    Head(retryTimers).tries, Tail(retryTimers))
    /\ shutdown' = FanLogged
    /\ UNCHANGED <<daemonVars, driverTimers, calls>>

\* The timer of sendPWMCommandFreq fires: the PCA9685 emits "initialized",
\* on which PitAirflow sets _initialized, whichever PCA9685 it was
DriverInitialized ==
    /\ driverTimers > 0
    /\ AirflowStep("initialized")
    /\ driverTimers' = driverTimers - 1
    /\ pit' = [pit EXCEPT !.initialized = TRUE]
    /\ retryTimers' = [i \in DOMAIN retryTimers |->
                          [retryTimers[i] EXCEPT
                              !.waitFor = Max(0, retryTimers[i].waitFor - 1)]]
    /\ UNCHANGED <<daemonVars, lastCmd, shutdown, calls>>

\* set driverBus(value) / set driverAddress(value): _initialized is false
\* again and a new PCA9685 is made, with a timer of its own
SetDriverBus ==
    /\ calls < MaxAirflowCalls
    /\ AirflowStep("driverBus")
    /\ calls' = calls + 1
    /\ pit' = [pit EXCEPT !.initialized = FALSE]
    /\ driverTimers' = driverTimers + 1
    /\ UNCHANGED <<daemonVars, retryTimers, lastCmd, shutdown>>

\* SIGINT, once index.js has awaited daemon.start() and set the handler:
\* pit.setFanSpeed(0), then daemon.stop() is awaited; an exception of
\* setFanSpeed rejects the handler before it
Sigint ==
    /\ shutdown = << >>
    /\ restartCount >= 0
    /\ AirflowStep("SIGINT")
    /\ MotorCommand("fan", MOTOR_OFF, 0, retryTimers)
    /\ shutdown' = IF lastCmd'.outcome = "applied" THEN <<"fan0", "stop">>
                   ELSE IF lastCmd'.outcome = "queued" THEN <<"stop">>
                   ELSE <<"threw">>
    /\ UNCHANGED <<daemonVars, driverTimers, calls>>

\* daemon.stop() resolves: daemon.destroy(); process.exit(0)
SigintStopped ==
    /\ shutdown # << >>
    /\ AirflowStep("exit")
    /\ active' = FALSE
    /\ shutdown' = shutdown \o <<"stopped", "destroy", "exit">>
    /\ UNCHANGED <<errCount, restartCount, blacklist, meaters, probeObjs, created,
                   updateTimers, awaiting, restartTimers, startTimers,
                   enumerated, pit, driverTimers, retryTimers, lastCmd, calls>>

NextAirflow ==
    \/ \E value \in AirflowValues : SetFanSpeed(value)
    \/ \E value \in AirflowValues : SetDamperPosition(value)
    \/ RetryTimer
    \/ DriverInitialized
    \/ SetDriverBus

SpecAirflow == Init /\ [][NextAirflow]_vars

\* The shutdown: the start of the daemon, the controller's fan outputs, the
\* driver's timers, SIGINT
NextShutdown ==
    \/ DaemonStart
    \/ \E value \in AirflowValues : SetFanSpeed(value)
    \/ RetryTimer
    \/ DriverInitialized
    \/ Sigint
    \/ SigintStopped

SpecShutdown == Init /\ [][NextShutdown]_vars

-----------------------------------------------------------------------------
(* Reaching the set point: configuration, set point, readings and the timer *)

\* lid_open_duration values the configuration may hold (seconds)
LidDurations == {30, 32, 240}
\* Setter calls and probe readings, and timer firings, in one behaviour
MaxLidCalls == 4
MaxLidTicks == 16
\* Timer firings that contain at least two heavy ticks
LidSettle == 2 * (TEMP_MEASURE_PERIOD \div DO_WORK_PERIOD)

LidCall(A) == calls < MaxLidCalls /\ A /\ calls' = calls + 1 /\ UNCHANGED ticks

\* index.js assigns the configuration before the first timer fires
LidConfigure ==
    ticks = 0 /\ LidCall(\E value \in LidDurations : SetLidOpenDuration(value))

LidSetPoint == ticks = 0 /\ LidCall(SetSetPoint(OrchSetPoint))

\* probe.on("update", data => pid.updateProbe(data))
LidProbeUpdate ==
    LidCall(\E v \in Ambients, u \in OrchUnits : UpdateProbe("a1", v, u))

\* The timer fires DO_WORK_PERIOD after it was set
LidTick == /\ ticks < MaxLidTicks
           /\ DoWork(DO_WORK_PERIOD)
           /\ ticks' = ticks + 1
           /\ UNCHANGED calls

NextLid == LidConfigure \/ LidSetPoint \/ LidProbeUpdate \/ LidTick

\* doWork ends by setting the timer of the next doWork: while the loop runs
\* a timer is pending, and a pending timer fires
SpecLid == Init /\ [][NextLid]_vars /\ WF_vars(LidTick)

-----------------------------------------------------------------------------
(* The blacklist alone: blacklist(), whitelist(), and the two in a row     *)

\* blacklist(id); whitelist(id), nothing in between
BlacklistThenWhitelist(id) ==
    /\ Len(blacklist) <= MaxBlacklist
    /\ DaemonCall("blacklist;whitelist")
    /\ blacklist' = removeItem(Append(blacklist, id), id)
    /\ UNCHANGED <<active, errCount, restartCount, meaters, probeObjs, created,
                   updateTimers, awaiting, restartTimers, startTimers,
                   enumerated>>

NextLists ==
    \/ \E id \in MACs : Blacklist(id)
    \/ \E id \in MACs : Whitelist(id)
    \/ \E id \in MACs : BlacklistThenWhitelist(id)

SpecLists == InitDaemon /\ [][NextLists]_vars

-----------------------------------------------------------------------------
(* Reading the events of the last operation                                *)

EventsOf(type) == {i \in DOMAIN events : events[i].type = type}
NFan == Cardinality(EventsOf("fan"))
NServo == Cardinality(EventsOf("servo"))
NStatus == Cardinality(EventsOf("status"))
HeavyTick == lastOp = "doWork" /\ heavy
InPct(x) == IsNum(x) /\ 0 <= x /\ x <= 100 * S

-----------------------------------------------------------------------------
(* C1 - C10                                                                *)

\* C1: every value of a fan or servo event, pid_output, and the pid_output,
\* fan_pct and servo_pct of every status snapshot are numbers in [0, 100].
C1_PercentagesInRange ==
    /\ InPct(pidOutput)
    /\ \A i \in DOMAIN events :
          IF events[i].type = "status"
          THEN /\ InPct(events[i].value.pidOutput)
               /\ InPct(events[i].value.fanPct)
               /\ InPct(events[i].value.servoPct)
          ELSE InPct(events[i].value)

\* C2: a work invocation is heavy only when at least 1000 ms elapsed since the
\* previous heavy tick, a heavy tick emits exactly one status event, any other
\* invocation none, and two status events are at least 1000 ms apart.
C2_StatusOncePerHeavyTick ==
    /\ lastOp = "doWork" =>
          /\ heavy => (elapsed >= TEMP_MEASURE_PERIOD /\ NStatus = 1)
          /\ ~heavy => NStatus = 0
    /\ (IsNum(prevStatusMillis) /\ IsNum(lastStatusMillis)) =>
          lastStatusMillis - prevStatusMillis >= TEMP_MEASURE_PERIOD

C4_FanServoStatusOrder ==
    \A i, j \in DOMAIN events :
        i < j => /\ events[i].type # "status"
                 /\ ~(events[i].type = "servo" /\ events[j].type = "fan")

C4_Witness == HeavyTick /\ NFan >= 1 /\ NServo = 1 /\ NStatus = 1

\* C5: right after set_point := v the mode is Startup, pid_output is 0 and the
\* lid timeout is 0; right after mode := m the mode is m, pid_output is 0 and
\* the lid timeout is 0.
C5_SetPointAndModeReset ==
    /\ lastOp = "setPoint" =>
          /\ pidMode = STARTUP /\ pidOutput = 0 /\ lidOpenTimeout = 0
          /\ setPoint = ctlArg
    /\ lastOp = "pidMode" =>
          pidMode = ctlArg /\ pidOutput = 0 /\ lidOpenTimeout = 0

C5_Witness ==
    /\ lastOp = "setPoint" /\ prevMode = NORMAL /\ ticks >= 1
    /\ pidCurrent.P # 0

C7_ConfigurationClamped ==
    /\ 0 <= fanActiveFloor /\ fanActiveFloor <= 99 * S
    /\ 100 * S - fanActiveFloor >= S
    /\ lidOpenDuration >= 30
    /\ \A v \in {fanMaxSpeed, fanMaxStartupSpeed, fanMinSpeed, servoMinPos,
                 servoMaxPos, lidOpenOffset} : InPct(v)

C7_Witness ==
    /\ fanActiveFloor = 99 * S /\ lidOpenDuration = 30
    /\ fanMaxSpeed = 100 * S /\ fanMaxStartupSpeed = 0
    /\ fanMinSpeed = 99 * S + 50
    /\ servoMinPos = 0 /\ servoMaxPos = 100 * S /\ lidOpenOffset = 0
    /\ lastOp = "lidOpenDuration"

\* C8: a reading of another unit resets temp_ema to null, and the next heavy
\* tick in an automatic mode with a temperature available has a D term of 0.
C8_UnitChangeZeroD ==
    /\ lastOp = "updateProbeUnit" => temperatureAvg = NULL
    /\ (HeavyTick /\ unitTick) => pidCurrent.D = 0

\* C9: with P >= 0 the integrator is in [0, i_max], i_max being 100 in Normal
\* and fan_max_startup_speed otherwise.
C9_IntegratorBounded ==
    Pid.P >= 0 =>
        /\ 0 <= pidCurrent.I
        /\ pidCurrent.I <= GetPidIMax(pidMode, fanMaxStartupSpeed)

\* C10: a heavy tick in an automatic mode without a fused temperature leaves
\* pid_output 0, does not change the integrator, and emits its status event.
C10_NoTemperatureTick ==
    ( /\ HeavyTick /\ ticks > 0
      /\ prevMode <= AUTO_LAST
      /\ ~HasTemperature(connectedProbes, currentTemp, temperatureAvg) ) =>
        pidOutput = 0 /\ pidCurrent.I = prevI /\ NStatus = 1


-----------------------------------------------------------------------------
(* C11 - C20                                                               *)

\* The heavy tick ran to its commit (no exception left it before)
Committed == HeavyTick /\ ticks > 0 /\ NStatus = 1
\* set_point - current_temp as doWork computes it (null counts as 0); neither
\* field is written by doWork
TempDiff == Num(setPoint) - Num(currentTemp)
\* lid_open_duration - lid_resume_countdown >= 30 s, as the last doWork found it
ResumeMargin ==
    lidOpenDuration * 1000 - (now - before.lidOpenTimeout)
        >= LIDOPEN_MIN_AUTORESUME * 1000

C12_RecoveryEntered ==
    ( /\ Committed
      /\ ~(TempDiff <= 0 /\ ResumeMargin)
      /\ before.lidOpenTimeout = 0
      /\ lidOpenOffset > 0
      /\ prevMode = NORMAL
      /\ IsNum(setPoint) /\ setPoint > 0 /\ IsNum(currentTemp)
      /\ TempDiff * 100 * S >= lidOpenOffset * setPoint
      /\ pidOutputAvg < 90 * S ) =>
        pidMode = RECOVERY /\ lidOpenTimeout > now


\* C13: the fan speed _commitFanOutput computes before the long-PWM and boost
\* conditioning is 0 when u < f and (u - f) * current_max / (100 - f)
\* otherwise (to the nearest unit of the model), current_max being
\* fan_max_startup_speed in Startup and fan_max_speed in every other mode;
\* u = 100 maps to current_max.
C13_FanMapping ==
    lastOp = "commitFanOutput" =>
        LET u == pidOutput
            f == fanActiveFloor
            cm == IF pidMode = STARTUP THEN fanMaxStartupSpeed ELSE fanMaxSpeed
        IN  /\ u < f => fanPct = 0
            /\ u >= f =>
                  2 * Abs(fanPct * (100 * S - f) - (u - f) * cm) <= 100 * S - f
            /\ u = 100 * S => fanPct = cm

C13_Witness ==
    /\ lastOp = "commitFanOutput" /\ pidMode = STARTUP
    /\ pidOutput = 62 * S + 50 /\ fanActiveFloor = 50 * S
    /\ fanMaxStartupSpeed = 60 * S /\ fanMaxSpeed = 100 * S
    /\ fanPct = 15 * S


\* The doWork invocation found a long-PWM quota running and ended it
QuotaEnded ==
    /\ lastOp = "doWork" /\ ~crashed
    /\ before.longPwmRemaining # 0
    /\ elapsed > before.longPwmRemaining

\* C14: in a long-PWM window the fan is commanded fan_min_speed for the
\* target on-time and 0 for the rest of the window: the sub-tick on which
\* the on-time quota runs out leaves the fan commanded to 0.
C14_OffAfterQuota ==
    (QuotaEnded /\ ~heavy) => fanCmd = 0


\* C15: a heavy tick on which the conditioned fan percentage rises from 0
\* to v > 0 emits the fan event 100 (boost); a heavy tick that finds the fan
\* percentage non-zero and leaves it non-zero emits the computed value, so
\* that a boost is emitted only on a 0 to non-zero edge.
C15_BoostOnEdgeOnly ==
    /\ (Committed /\ before.fanPct = 0 /\ fanPct > 0) => fanCmd = 100 * S
    /\ (Committed /\ before.fanPct > 0 /\ fanPct > 0) => fanCmd = fanPct

\* C16: no doWork invocation emits more than one fan event.
C16_OneFanEvent ==
    lastOp = "doWork" => NFan <= 1

\* The servo position the last heavy tick requested
ServoRequested ==
    servoMinPos + RoundDiv(Min(pidOutput, SERVO_ACTIVE_CEIL * S)
                              * (servoMaxPos - servoMinPos), 100 * S)

ServoBigMove == Abs(ServoRequested - before.servoPct) > SERVO_MIN_THRESH * S

\* C17: a heavy tick emits a servo event only if the requested position is
\* more than SERVO_MIN_THRESH from the last emitted one or the hold-off
\* counter, incremented by the tick, exceeds SERVO_MAX_HOLDOFF; an emission
\* resets the counter and a suppressed tick increments it; while the
\* requested position stays within the threshold, the emission happens
\* exactly on the 11th heavy tick since the last emission.
C17_ServoHoldOff ==
    Committed =>
        /\ NServo <= 1
        /\ NServo = 1 =>
              /\ ServoBigMove \/ before.servoHoldoff + 1 > SERVO_MAX_HOLDOFF
              /\ servoHoldoff = 0
              /\ servoPct = ServoRequested
              /\ \A i \in EventsOf("servo") : events[i].value = ServoRequested
        /\ NServo = 0 =>
              /\ servoHoldoff = before.servoHoldoff + 1
              /\ servoPct = before.servoPct
        /\ ~ServoBigMove =>
              (NServo = 1 <=> before.sinceServo = SERVO_MAX_HOLDOFF)

C17_Witness ==
    /\ Committed /\ NServo = 1 /\ ~ServoBigMove
    /\ before.sinceServo = SERVO_MAX_HOLDOFF
    /\ before.servoPct > 0


\* C18: the fused pit temperature a reading leaves is the arithmetic mean of
\* the ambients that are >= mu - 0.5 * sigma (population sigma); a single
\* ambient is returned unchanged; 225, 228, 226, 75 retain 225, 228, 226.
\* (x >= mu - sigma / 2 is decided in whole degrees as mu - x <= 0 or
\* 4 * (mu - x)^2 <= sigma^2, both sides multiplied by n^3.)
C18_LowerTrimmedMean ==
    LET D == DOMAIN connectedProbes
        n == Cardinality(D)
        deg == [a \in D |-> connectedProbes[a] \div S]
        sum == SumOver(deg, D)
        dev2 == [a \in D |-> (n * deg[a] - sum) * (n * deg[a] - sum)]
        retained == {a \in D : \/ n * deg[a] >= sum
                               \/ 4 * n * dev2[a] <= SumOver(dev2, D)}
    IN  (lastOp \in {"updateProbe", "updateProbeUnit"}) =>
            /\ retained # {}
            /\ 2 * Abs(currentTemp * Cardinality(retained)
                         - SumOver(connectedProbes, retained))
                  <= Cardinality(retained)
            /\ n = 1 => \A a \in D : currentTemp = connectedProbes[a]
            /\ ( /\ n = 4
                 /\ \E a, b, c, d \in D :
                       /\ connectedProbes[a] = 225 * S
                       /\ connectedProbes[b] = 228 * S
                       /\ connectedProbes[c] = 226 * S
                       /\ connectedProbes[d] = 75 * S )
               => /\ \A a \in D : a \in retained <=> connectedProbes[a] # 75 * S
                  /\ currentTemp = 226 * S + 33

C18_Witness ==
    /\ lastOp = "updateProbe" /\ Cardinality(DOMAIN connectedProbes) = 4
    /\ \E a, b, c, d \in DOMAIN connectedProbes :
          /\ connectedProbes[a] = 225 * S /\ connectedProbes[b] = 228 * S
          /\ connectedProbes[c] = 226 * S /\ connectedProbes[d] = 75 * S
    /\ currentTemp = 226 * S + 33

\* C19: after removeProbe the map no longer holds the address and the fused
\* pit temperature is that of the probes still in the map, null when the
\* map is empty.
C19_RemoveRecomputes ==
    lastOp = "removeProbe" =>
        currentTemp = IF DOMAIN connectedProbes = {} THEN NULL
                      ELSE calcLowerTrimmedMean(connectedProbes)


\* C20: a supervisory tick makes a probe object for an address only if the
\* address has the prefix B8:1F:5E, is not on the blacklist at that moment
\* and is not tracked; so no probe is made for an address while it is
\* blacklisted, and at any time at most one probe object exists per address,
\* the one _meaters tracks.
C20_SpawnOnlyEligible ==
    /\ [](\A id \in MACs :
             /\ Cardinality({p \in probeObjs : p.mac = id}) <= 1
             /\ (\E p \in probeObjs : p.mac = id) <=> id \in DOMAIN meaters)
    /\ [][\A p \in probeObjs' :
             (~\E q \in probeObjs : q.mac = p.mac /\ q.gen = p.gen) =>
                 /\ lastOp' = "_update:devices"
                 /\ p.mac.oui = APPTION_LABS
                 /\ ~isBlacklisted(p.mac)
                 /\ p.mac \notin DOMAIN meaters]_vars

C20_Witness ==
    /\ lastOp = "_update:devices" /\ enumerated = MACs
    /\ \E b \in Meaters, p \in probeObjs :
          /\ isBlacklisted(b) /\ b \notin DOMAIN meaters
          /\ p.mac # b /\ p.state = "connecting"


\* C21 as stated: for every address x, blacklisted before or not, after
\* blacklist(x); whitelist(x) every address is blacklisted exactly if it was
\* before the two calls.
C21_RoundTripAnyState ==
    [][\A id \in MACs :
          BlacklistThenWhitelist(id) =>
              \A m \in MACs : isBlacklisted(m)' <=> isBlacklisted(m)]_vars

\* C21: for every address x that is not blacklisted, after blacklist(x);
\* whitelist(x) every address is blacklisted exactly if it was before the two
\* calls (an x blacklisted before is not blacklisted after them).
C21_RoundTripWhenAbsent ==
    [][\A id \in MACs :
          BlacklistThenWhitelist(id) =>
              /\ ~isBlacklisted(id)'
              /\ ~isBlacklisted(id) =>
                    \A m \in MACs : isBlacklisted(m)' <=> isBlacklisted(m)]_vars

C21_Witness ==
    /\ lastOp = "blacklist;whitelist"
    /\ Len(blacklist) = MaxBlacklist
    /\ \E m \in MACs : ~isBlacklisted(m)


\* C22: the failure counter grows by one per connectFailed and is unchanged
\* by a disconnect; an _update tick that finds the daemon active with the
\* counter above MAX_CONNECTION_FAILURES sets one timer for restart(), awaits
\* no device list, makes no probe and sets no _update timer; restart() stops
\* the daemon and sets the timer of start(), and start() leaves the counter
\* 0, the daemon active and an _update timer pending.
C22_FailureCounterRestart ==
    [][/\ lastOp' = "connectFailed" => errCount' = errCount + 1
       /\ lastOp' = "disconnect" => errCount' = errCount
       /\ ( /\ lastOp' = "_update" /\ active
            /\ errCount > MAX_CONNECTION_FAILURES ) =>
              /\ restartTimers' = restartTimers + 1
              /\ awaiting' = awaiting
              /\ updateTimers' = updateTimers - 1
              /\ probeObjs' = probeObjs /\ meaters' = meaters
              /\ startTimers' = startTimers
       /\ lastOp' = "restart" =>
              /\ ~active' /\ startTimers' = startTimers + 1
              /\ errCount' = errCount
       /\ lastOp' = "start" =>
              /\ active' /\ errCount' = 0
              /\ updateTimers' = updateTimers + 1]_vars

\* start() has run after a restart the failures themselves triggered
C22_Witness ==
    /\ lastOp = "start" /\ calls = 0
    /\ restartCount = 1 /\ errCount = 0
    /\ active /\ updateTimers = 1 /\ restartTimers = 0

-----------------------------------------------------------------------------
(* C23 - C30                                                               *)

\* C23: when a connection attempt ends without the probe connected, whatever
\* the step that failed, the probe emits connectFailed exactly once, the
\* failure counter grows by one and the address is no longer tracked, so
\* that a later _update attempts it again.
C23_ConnectFailureReported ==
    [][\A p \in probeObjs :
          ( /\ p.state = "connecting"
            /\ lastOp' # "connect"
            /\ p \notin probeObjs'
            /\ [p EXCEPT !.state = "connected"] \notin probeObjs' ) =>
              /\ Cardinality({i \in DOMAIN events' :
                                 events'[i] = Emitted("connectFailed", p.mac)}) = 1
              /\ errCount' = errCount + 1
              /\ p.mac \notin DOMAIN meaters']_vars

\* C24: a read error in the update() of a connected probe removes that probe
\* alone, with exactly one disconnect event for its address and no further
\* update() of it; the other probes stay as they were, and so do the failure
\* counter, the daemon's timers and activity, and the controller's clock.
C24_ReadErrorDisconnectsOne ==
    [][lastOp' = "disconnect" =>
          \E p \in probeObjs :
              /\ p.state = "connected"
              /\ probeObjs' = probeObjs \ {p}
              /\ \A q \in probeObjs' : q.mac # p.mac
              /\ Cardinality({i \in DOMAIN events' :
                                 events'[i].type = "disconnect"}) = 1
              /\ \E i \in DOMAIN events' :
                     events'[i] = Emitted("disconnect", p.mac)
              /\ meaters' = Untrack(p.mac)
              /\ errCount' = errCount
              /\ active' = active
              /\ UNCHANGED <<updateTimers, awaiting, restartTimers, startTimers>>
              /\ UNCHANGED clockVars]_vars

\* One probe has just disconnected on a read error while another one is
\* still connected and the daemon's next _update is pending
C24_Witness ==
    /\ lastOp = "disconnect"
    /\ \E q \in probeObjs : q.state = "connected"
    /\ active /\ updateTimers > 0

\* C25: stop() and restart() leave the map of tracked probes and the probes
\* themselves as they were and the daemon inactive; a connected probe can
\* poll whether or not the daemon is active; restart() sets one timer for
\* start(), and start() leaves the daemon active with an _update pending.
C25_StopRestartKeepProbes ==
    /\ [](\A p \in probeObjs :
             p.state = "connected" => ENABLED ProbePoll(p, <<10, 0>>))
    /\ [][/\ lastOp' \in {"stop", "restart"} =>
                /\ meaters' = meaters
                /\ probeObjs' = probeObjs
                /\ ~active'
                /\ updateTimers' = updateTimers
          /\ lastOp' = "stop" => startTimers' = startTimers
          /\ lastOp' = "restart" => startTimers' = startTimers + 1
          /\ lastOp' = "start" =>
                /\ active' /\ updateTimers' = updateTimers + 1
                /\ meaters' = meaters /\ probeObjs' = probeObjs]_vars

\* A connected probe has polled while the daemon was stopped by restart()
\* and the timer of start() had not fired yet
C25_Witness ==
    /\ lastOp = "update" /\ ~active /\ startTimers > 0
    /\ \E p \in probeObjs : p.state = "connected" /\ p.mac \in DOMAIN meaters

\* C26: the battery of every update event a probe emits is a percentage in
\* [0, 100], whatever the two bytes of the battery characteristic.
C26_BatteryInRange ==
    \A i \in DOMAIN events :
        events[i].type = "update" =>
            /\ 0 <= events[i].value.battery
            /\ events[i].value.battery <= 100

\* C27: a command that finds the driver uninitialized is retried at most
\* DRIVER_NUM_RETRIES times: the retry that fires is never beyond the 5th;
\* the 5th retry, finding the driver still uninitialized, raises the
\* initialization timeout; and a retry that finds the driver initialized
\* applies the command and leaves the retry counter at 0.
C27_RetriesBounded ==
    [][lastOp' = "retry" =>
          LET t == Head(retryTimers)
          IN  /\ t.tries <= DRIVER_NUM_RETRIES
              /\ (t.tries = DRIVER_NUM_RETRIES /\ ~pit.initialized) =>
                     lastCmd'.outcome = "timeout"
              /\ (pit.initialized /\ driverTimers = 0) =>
                     /\ lastCmd'.outcome = "applied"
                     /\ IF t.cmd = "fan"
                        THEN pit'.fanRetries = 0 /\ pit'.fanSpeed = t.value
                        ELSE /\ pit'.damperRetries = 0
                             /\ pit'.damperPosition = t.value]_vars

\* C28: what the SIGINT handler does starts with the fan command 0 reaching
\* the motor driver, and the stop of the daemon comes second; when the
\* process exits, the stop has completed, then destroy, then exit, in this
\* order.
C28_OrderedShutdown ==
    /\ shutdown # << >> =>
          /\ shutdown[1] = "fan0"
          /\ Len(shutdown) >= 2 => shutdown[2] = "stop"
    /\ (shutdown # << >> /\ shutdown[Len(shutdown)] = "exit") =>
          /\ Len(shutdown) >= 5
          /\ SubSeq(shutdown, Len(shutdown) - 2, Len(shutdown)) =
                <<"stopped", "destroy", "exit">>
          /\ ~active

\* C29: with P < 0, a heavy tick in an automatic mode with a temperature
\* available runs the PID computation to its end; its P term is
\* P * (-lambda * setPoint + currentTemp), and the integrator it leaves is
\* within [0, i_max + (lambda - 1) * P * setPoint].
C29_PonMeErCompletes ==
    ( /\ HeavyTick /\ prevMode <= AUTO_LAST /\ Pid.P < 0
      /\ HasTemperature(connectedProbes, currentTemp, temperatureAvg) ) =>
        /\ pidRan
        /\ pidCurrent.P =
              MulGain(Pid.P, RoundDiv(10 * currentTemp
                                      - PID_PONMEER_LAMBDA_10 * Num(setPoint), 10))
        /\ 0 <= calcI
        /\ calcI <= GetPidIMax(prevMode, fanMaxStartupSpeed)
                    + MulGain(Pid.P, RoundDiv((PID_PONMEER_LAMBDA_10 - 10)
                                              * Num(setPoint), 10))

\* C30: in a heavy tick the PID computation changes the integrator only when
\* the mode is automatic, a temperature is available and, with e the error
\* and u the pid_output the tick found, (e < 0 and u > 0) or (e > 0 and
\* u < i_max); it then leaves the integrator plus I * e, clamped to
\* [0, i_max], when it runs to its end; in every other case the integrator
\* is as the tick found it.
C30_IntegratesOnlyUnsaturated ==
    HeavyTick =>
        LET e == Num(setPoint) - currentTemp
            u == before.pidOutput
            high == GetPidIMax(prevMode, fanMaxStartupSpeed)
            integrates ==
                /\ prevMode <= AUTO_LAST
                /\ HasTemperature(connectedProbes, currentTemp, temperatureAvg)
                /\ (e < 0 /\ u > 0) \/ (e > 0 /\ u < high)
        IN  /\ ~integrates => calcI = prevI
            /\ (integrates /\ pidRan) =>
                   calcI = constrain(prevI + MulGain(Pid.I, e), 0, high)

\* A heavy tick ran the computation with the temperature below the set
\* point and found the output saturated: the integrator is not to move
C30_Witness ==
    /\ HeavyTick /\ pidRan
    /\ Num(setPoint) - currentTemp > 0
    /\ before.pidOutput >= GetPidIMax(prevMode, fanMaxStartupSpeed)
    /\ Pid.I # 0

-----------------------------------------------------------------------------
(* C31 - C40                                                               *)

\* C32: at a heavy tick where the Normal transition does not apply, a lid
\* timeout of 0 is left at 0, and a running countdown is carried in the lid
\* timeout one TEMP_MEASURE_PERIOD lower, the mode unchanged.
C32_CountdownStep ==
    (Committed /\ ~(TempDiff <= 0 /\ ResumeMargin)) =>
        /\ before.lidOpenTimeout = 0 => lidOpenTimeout = 0
        /\ before.lidOpenTimeout # 0 =>
              /\ lidOpenTimeout = before.lidOpenTimeout - TEMP_MEASURE_PERIOD
              /\ pidMode = prevMode

\* C33: the sub-tick that finds the long-PWM quota of the window used up
\* emits one fan event, of value 0, and on every sub-tick up to the next
\* heavy tick the last fan command is still 0.
C33_QuotaExhaustedFanOff ==
    /\ (QuotaEnded /\ ~heavy) =>
          /\ NFan = 1
          /\ \A i \in EventsOf("fan") : events[i].value = 0
    /\ ( /\ lastOp = "doWork" /\ ~heavy /\ ~crashed
         /\ before.longPwmTmr > 0 /\ longPwmRemaining = 0 ) =>
          fanCmd = 0


\* C34: a probe emits "connect" before any "update" and never after its
\* "disconnect": among the events of one step, none that precedes a
\* probe's "connect" is that probe's "update" or "disconnect".
C34_ConnectPrecedesUpdate ==
    \A j \in EventsOf("connect") : \A i \in 1..(j - 1) :
        /\ ~( /\ events[i].type = "update"
              /\ events[i].value.address = events[j].value )
        /\ ~( /\ events[i].type = "disconnect"
              /\ events[i].value = events[j].value )


\* C37: at most one chain of _update timers is live: the timers of _update
\* that are pending and the _update calls awaiting devices() number at most
\* one, whatever the order of start(), stop(), restart() and the timers.
C37_OneUpdateChain == updateTimers + awaiting <= 1


\* C38: whenever a probe that is connected and polling stops polling, the
\* step emits its "disconnect" and the daemon's probeDisconnect, and the
\* daemon no longer tracks its address.
C38_StoppedPollingDisconnects ==
    [][\A p \in probeObjs :
          (p.state = "connected" /\ p \notin probeObjs') =>
              /\ \E i \in DOMAIN events' :
                    events'[i] = Emitted("disconnect", p.mac)
              /\ \E i \in DOMAIN events' :
                    events'[i] = Emitted("probeDisconnect", p.mac)
              /\ p.mac \notin DOMAIN meaters']_vars


\* C40: once the SIGINT handler's fan command 0 has reached the driver, no
\* fan command other than 0 reaches it before the process exits.
C40_FanStaysOffUntilExit ==
    \A i \in DOMAIN shutdown : \A j \in DOMAIN shutdown :
        (i < j /\ shutdown[i] = "fan0") => shutdown[j] # "fan"


\* C39: motor commands take effect in the order they were requested: when
\* a setFanSpeed or setDamperPosition request has just been applied, a retry
\* of an older request of the same kind that runs next does not replace the
\* value it set.
C39_NewerCommandStands ==
    [][ /\ ( /\ lastOp = "setFanSpeed" /\ lastCmd.outcome = "applied"
             /\ lastOp' = "retry" /\ lastCmd'.cmd = "fan" ) =>
               pit'.fanSpeed = pit.fanSpeed
        /\ ( /\ lastOp = "setDamperPosition" /\ lastCmd.outcome = "applied"
             /\ lastOp' = "retry" /\ lastCmd'.cmd = "damper" ) =>
               pit'.damperPosition = pit.damperPosition ]_vars


\* C36: every doWork invocation returns without raising and leaves exactly
\* one next invocation scheduled, whatever the configuration.
C36_EveryTickCompletes ==
    lastOp = "doWork" => (~crashed /\ pendingTimers = 1)


=============================================================================
